---- MODULE Spec2Model ----
(***************************************************************************)
(* A model of the backtest statistics and the market data loader of        *)
(* fishisnow/blacktest:                                                    *)
(*   src/backend/src/utils/statistics_calculator.py  (StatisticsCalculator)*)
(*   src/backend/src/storage/data_loader.py          (DataLoader)          *)
(*   src/data_provider_factory.py                    (DataProviderFactory) *)
(*                                                                         *)
(* Money is counted in units of 0.01 (so PROFIT_THRESHOLD = 0.01 is 1);    *)
(* Python floats are modelled as exact rationals <<n, d>> in lowest terms  *)
(* with d > 0, so that equal values are equal tuples.                      *)
(***************************************************************************)
EXTENDS Integers, Sequences, FiniteSets, TLC

VARIABLES
    entry,              \* the function that was called
    pc,                 \* position inside the call
    daily_results,      \* argument: the daily records
    trades,             \* argument: the raw trade records
    initial_capital,    \* argument
    \* locals of _process_daily_results
    cumulative_pnl, win_count, loss_count, max_capital,
    current_drawdown, max_drawdown, processed_results,
    \* locals of _calculate_trade_statistics
    sorted_trades, trade_index, position_stack, completed_trades, trade_stats,
    \* locals of calculate_backtest_statistics
    summary_max_drawdown, annual_metrics,
    \* what the call returned (or the exception it raised)
    result,
    \* what ResultAnalyzer._analyze_trades and the dashboard's
    \* calculate_trade_pnl made of the same trades
    trade_pairs, enhanced_trades,
    \* arguments of the DataLoader call
    symbol, start_date, end_date,
    \* the rows of the table market_data
    market_data,
    \* the configured data sources and what their providers answer
    data_sources,
    \* the trading calendar behind trading_date_utils
    trading_calendar,
    \* locals of get_index_data
    cached_data, missing_dates, range_index, new_data,
    \* locals of _get_remote_data_multi_source
    providers, provider_index,
    \* the number of the get_index_data request, the requests for historical
    \* data the providers received, and what each range fetch came back with
    request, calls, fetches,
    \* the callers of _save_to_cache sharing the cache file, the write
    \* transaction that is open on it, and the statements the file received
    writers, transaction, cache_log

vars == <<entry, pc, daily_results, trades, initial_capital,
          cumulative_pnl, win_count, loss_count, max_capital,
          current_drawdown, max_drawdown, processed_results,
          sorted_trades, trade_index, position_stack, completed_trades,
          trade_stats, summary_max_drawdown, annual_metrics, result,
          trade_pairs, enhanced_trades,
          symbol, start_date, end_date, market_data, data_sources,
          trading_calendar, cached_data, missing_dates, range_index, new_data,
          providers, provider_index, request, calls, fetches,
          writers, transaction, cache_log>>

dailyLocals == <<cumulative_pnl, win_count, loss_count, max_capital,
                 current_drawdown, max_drawdown, processed_results>>

tradeLocals == <<sorted_trades, trade_index, position_stack, completed_trades,
                 trade_stats>>

inputs == <<entry, daily_results, trades, initial_capital>>

analysisVars == <<trade_pairs, enhanced_trades>>

statisticsVars == <<daily_results, trades, initial_capital, dailyLocals, tradeLocals,
                    summary_max_drawdown, annual_metrics, analysisVars>>

loaderArgs == <<symbol, start_date, end_date>>

environment == <<data_sources, trading_calendar>>

indexLocals == <<cached_data, missing_dates, range_index, new_data>>

remoteLocals == <<providers, provider_index>>

cacheVars == <<writers, transaction, cache_log>>

loaderVars == <<loaderArgs, market_data, environment, indexLocals, remoteLocals,
                request, calls, fetches, cacheVars>>

----------------------------------------------------------------------------
(* Exact rational arithmetic standing for Python's float arithmetic.       *)

Abs(x) == IF x < 0 THEN -x ELSE x

RECURSIVE GCD(_, _)
GCD(a, b) == IF b = 0 THEN a ELSE GCD(b, a % b)

\* n / d in lowest terms with a positive denominator (d # 0)
Rat(n, d) ==
    LET s == IF d < 0 THEN -1 ELSE 1
        g == GCD(Abs(n), Abs(d))
    IN  <<(s * n) \div g, (s * d) \div g>>

RZero == <<0, 1>>

RInt(n) == <<n, 1>>

RMul(a, b) ==
    LET g1 == GCD(Abs(a[1]), b[2])
        g2 == GCD(Abs(b[1]), a[2])
        h1 == IF g1 = 0 THEN 1 ELSE g1
        h2 == IF g2 = 0 THEN 1 ELSE g2
    IN  Rat((a[1] \div h1) * (b[1] \div h2), (a[2] \div h2) * (b[2] \div h1))

RAdd(a, b) ==
    LET g == GCD(a[2], b[2])
    IN  Rat(a[1] * (b[2] \div g) + b[1] * (a[2] \div g), (a[2] \div g) * b[2])

RNeg(a) == <<-a[1], a[2]>>

RSub(a, b) == RAdd(a, RNeg(b))

\* a / b for b # 0
RDiv(a, b) == RMul(a, Rat(b[2], b[1]))

\* a < b, by integer parts and then the reciprocals of the fractional parts
RECURSIVE RLt(_, _)
RLt(a, b) ==
    LET qa == a[1] \div a[2]
        qb == b[1] \div b[2]
        ra == a[1] % a[2]
        rb == b[1] % b[2]
    IN  IF qa # qb THEN qa < qb
        ELSE IF rb = 0 THEN FALSE
        ELSE IF ra = 0 THEN TRUE
        ELSE RLt(<<b[2], rb>>, <<a[2], ra>>)

RMax(a, b) == IF RLt(a, b) THEN b ELSE a

RMin(a, b) == IF RLt(b, a) THEN b ELSE a

RAbs(a) == <<Abs(a[1]), a[2]>>

----------------------------------------------------------------------------
(* Program constants (src/src/constants.py), in units of 0.01.             *)

PROFIT_THRESHOLD == 1

LOSS_THRESHOLD == -1

TRADING_DAYS_PER_YEAR == 252

----------------------------------------------------------------------------
(* Input domains.                                                          *)

MaxDays == 3

\* An optional number: None or Some(v)
None == <<>>

Some(v) == <<v>>

\* daily net_pnl values: around both thresholds, and the spec's 1000, -500, 2000
NetPnls == {None} \cup {Some(v) : v \in {-50000, -2, -1, 0, 1, 2, 100000, 200000}}

Capitals == {-1000, 0, 1000, 100000000}

SeqsUpTo(S, n) == UNION {[1..m -> S] : m \in 0..n}

\* daily records carry their date: the i-th record is dated i
DailySeqs(S, n) ==
    {[i \in 1..Len(s) |-> [date |-> i, net_pnl |-> s[i]]] : s \in SeqsUpTo(S, n)}

----------------------------------------------------------------------------
(* _process_daily_results                                                  *)

\* float(net_pnl) if net_pnl is not None else 0.0
NetPnlOf(r) == IF r.net_pnl = None THEN 0 ELSE r.net_pnl[1]

\* the ratio computed at the end of one iteration from the two counters
WinLossRatio(w, l) ==
    IF l > 0 THEN Rat(w, l)
    ELSE IF w > 0 THEN RInt(w) ELSE RZero

\* a day counts as a win as soon as its net_pnl is positive
WinCountStepAnyGain(w, net_pnl) == IF net_pnl > 0 THEN w + 1 ELSE w

WinCountStep(w, net_pnl) == IF net_pnl > PROFIT_THRESHOLD THEN w + 1 ELSE w

LossCountStep(l, net_pnl) ==
    IF net_pnl > PROFIT_THRESHOLD THEN l
    ELSE IF net_pnl < LOSS_THRESHOLD THEN l + 1 ELSE l

\* the day's figure alone, not added to the running sum
CumulativePnlOfDay(cum, net_pnl) == net_pnl

\* cumulative_pnl += net_pnl
CumulativePnl(cum, net_pnl) == cum + net_pnl

\* if current_capital > max_capital
IsNewPeak(cur, maxcap) == cur > maxcap

\* the decline as a fraction of the peak, not as a percentage
DrawdownFraction(maxcap, cur) == Rat(maxcap - cur, maxcap)

\* (max_capital - current_capital) / max_capital * 100
DrawdownPct(maxcap, cur) == RMul(Rat(maxcap - cur, maxcap), RInt(100))

\* (cumulative_pnl / initial_capital) * 100
ReturnRatio(cum, cap) == RMul(Rat(cum, cap), RInt(100))

\* The iteration divides by max_capital (when no new peak) and by initial_capital
DailyStepRaises(maxcap, cur, cap) ==
    \/ ~IsNewPeak(cur, maxcap) /\ maxcap = 0
    \/ cap = 0

DailyEnter ==
    /\ pc = "process_daily_results"
    /\ cumulative_pnl' = 0
    /\ win_count' = 0
    /\ loss_count' = 0
    /\ max_capital' = initial_capital
    /\ current_drawdown' = RZero
    /\ max_drawdown' = RZero
    /\ processed_results' = <<>>
    /\ pc' = "daily_loop"
    /\ UNCHANGED <<loaderVars, analysisVars, inputs, tradeLocals, summary_max_drawdown, annual_metrics, result>>

DailyStep ==
    /\ pc = "daily_loop"
    /\ Len(processed_results) < Len(daily_results)
    /\ LET r == daily_results[Len(processed_results) + 1]
           net_pnl == NetPnlOf(r)
           cum == CumulativePnl(cumulative_pnl, net_pnl)
           cur == initial_capital + cum
           w == WinCountStep(win_count, net_pnl)
           l == LossCountStep(loss_count, net_pnl)
       IN  IF DailyStepRaises(max_capital, cur, initial_capital)
           THEN /\ pc' = "raised"
                /\ result' = [error |-> "ZeroDivisionError"]
                /\ UNCHANGED dailyLocals
           ELSE LET dd == IF IsNewPeak(cur, max_capital) THEN RZero
                          ELSE DrawdownPct(max_capital, cur)
                    mdd == IF IsNewPeak(cur, max_capital) THEN max_drawdown
                           ELSE RMax(max_drawdown, dd)
                IN  /\ cumulative_pnl' = cum
                    /\ max_capital' = IF IsNewPeak(cur, max_capital) THEN cur
                                       ELSE max_capital
                    /\ current_drawdown' = dd
                    /\ max_drawdown' = mdd
                    /\ win_count' = w
                    /\ loss_count' = l
                    /\ processed_results' = Append(processed_results,
                          [date |-> r.date,
                           net_pnl |-> net_pnl,
                           total_pnl |-> cum,
                           return_ratio |-> ReturnRatio(cum, initial_capital),
                           win_loss_ratio |-> WinLossRatio(w, l),
                           drawdown |-> dd,
                           max_drawdown |-> mdd])
                    /\ UNCHANGED <<pc, result>>
    /\ UNCHANGED <<loaderVars, analysisVars, inputs, tradeLocals, summary_max_drawdown, annual_metrics>>

\* return processed_results, to the caller of _process_daily_results
DailyReturn ==
    /\ pc = "daily_loop"
    /\ Len(processed_results) = Len(daily_results)
    /\ IF entry = "_process_daily_results"
       THEN /\ pc' = "returned"
            /\ result' = [processed_results |-> processed_results]
       ELSE /\ pc' = "max_drawdown"
            /\ UNCHANGED result
    /\ UNCHANGED <<loaderVars, analysisVars, inputs, dailyLocals, tradeLocals, summary_max_drawdown, annual_metrics>>

----------------------------------------------------------------------------
(* _calculate_trade_statistics                                             *)

\* 'OPEN' in offset.upper() or '开仓' in offset; offsets are written upper case
IsOpen(t) == t.offset = "OPEN"

\* 'CLOSE' in offset.upper() or '平仓' in offset
IsClose(t) == t.offset = "CLOSE"

\* 'LONG' in direction.upper() or '多' in direction
IsLong(t) == t.direction = "LONG"

Min(a, b) == IF a < b THEN a ELSE b

\* no sorting: the list as it was supplied
AsSupplied(s) == s

\* sorted(trades, key = datetime): a stable insertion, equal keys keep their order
RECURSIVE InsertByDatetime(_, _)
InsertByDatetime(s, t) ==
    IF s = <<>> THEN <<t>>
    ELSE IF s[Len(s)].datetime <= t.datetime THEN Append(s, t)
    ELSE Append(InsertByDatetime(SubSeq(s, 1, Len(s) - 1), t), s[Len(s)])

RECURSIVE SortedByDatetime(_)
SortedByDatetime(s) ==
    IF s = <<>> THEN <<>>
    ELSE InsertByDatetime(SortedByDatetime(SubSeq(s, 1, Len(s) - 1)), s[Len(s)])

\* the entry appended to position_stack for an OPEN trade
OpenLeg(t) ==
    [direction |-> IF IsLong(t) THEN "LONG" ELSE "SHORT",
     price |-> t.price,
     volume |-> t.volume,
     trade |-> t]

\* a queue instead of a stack: pop(0)
PopIndexOldest(stack) == 1

\* the index of the entry that position_stack.pop() removes: the last one
PopIndex(stack) == Len(stack)

RemoveAt(s, j) == SubSeq(s, 1, j - 1) \o SubSeq(s, j + 1, Len(s))

\* the whole volume of the CLOSE trade, whatever was opened
MatchedVolumeOfClose(volume, open_position) == volume

MatchedVolume(volume, open_position) == Min(volume, open_position.volume)

PairPnl(open_position, price, volume) ==
    IF open_position.direction = "LONG"
    THEN (price - open_position.price) * MatchedVolume(volume, open_position)
    ELSE (open_position.price - price) * MatchedVolume(volume, open_position)

\* the entry appended to completed_trades for a CLOSE trade t and the popped leg
CompletedTrade(open_position, t) ==
    [open_price |-> open_position.price,
     close_price |-> t.price,
     direction |-> open_position.direction,
     volume |-> MatchedVolume(t.volume, open_position),
     pnl |-> PairPnl(open_position, t.price, t.volume)]

\* a CLOSE that finds no open leg is kept on the stack as if it opened one
StackAfterKeepingClose(stack, t) ==
    IF IsOpen(t) \/ (IsClose(t) /\ stack = <<>>) THEN Append(stack, OpenLeg(t))
    ELSE IF IsClose(t) THEN RemoveAt(stack, PopIndex(stack))
    ELSE stack

\* a CLOSE smaller than the popped leg puts the rest of the leg back
StackAfterKeepingRemainder(stack, t) ==
    IF IsOpen(t) THEN Append(stack, OpenLeg(t))
    ELSE IF IsClose(t) /\ stack # <<>>
         THEN LET leg == stack[Len(stack)]
              IN  IF t.volume < leg.volume
                  THEN Append(SubSeq(stack, 1, Len(stack) - 1),
                              [leg EXCEPT !.volume = leg.volume - t.volume])
                  ELSE SubSeq(stack, 1, Len(stack) - 1)
    ELSE stack

\* one iteration of the loop over sorted_trades: the stack and the pairs after it
StackAfter(stack, t) ==
    IF IsOpen(t) THEN Append(stack, OpenLeg(t))
    ELSE IF IsClose(t) /\ stack # <<>> THEN RemoveAt(stack, PopIndex(stack))
    ELSE stack

CompletedAfter(stack, completed, t) ==
    IF IsOpen(t) THEN completed
    ELSE IF IsClose(t) /\ stack # <<>>
         THEN Append(completed, CompletedTrade(stack[PopIndex(stack)], t))
    ELSE completed

RECURSIVE SumSeq(_)
SumSeq(s) == IF s = <<>> THEN 0 ELSE s[1] + SumSeq(Tail(s))

RECURSIVE MaxSeq(_)
MaxSeq(s) ==
    IF Len(s) = 1 THEN s[1]
    ELSE LET m == MaxSeq(Tail(s)) IN IF s[1] > m THEN s[1] ELSE m

RECURSIVE MinSeq(_)
MinSeq(s) ==
    IF Len(s) = 1 THEN s[1]
    ELSE LET m == MinSeq(Tail(s)) IN IF s[1] < m THEN s[1] ELSE m

\* the list comprehension [p for p in s if Test(p)]
RECURSIVE Positive(_)
Positive(s) ==
    IF s = <<>> THEN <<>>
    ELSE IF s[1] > 0 THEN <<s[1]>> \o Positive(Tail(s)) ELSE Positive(Tail(s))

RECURSIVE Negative(_)
Negative(s) ==
    IF s = <<>> THEN <<>>
    ELSE IF s[1] < 0 THEN <<s[1]>> \o Negative(Tail(s)) ELSE Negative(Tail(s))

TradePnls(completed) == [j \in 1..Len(completed) |-> completed[j].pnl]

\* pairs that break even counted as wins (p >= 0)
WinRateCountingBreakEven(completed) ==
    IF completed = <<>> THEN RZero
    ELSE RMul(Rat(Len(completed) - Len(Negative(TradePnls(completed))),
                  Len(completed)), RInt(100))

\* winning_trades / len(completed_trades) * 100
WinRate(completed) ==
    IF completed = <<>> THEN RZero
    ELSE RMul(Rat(Len(Positive(TradePnls(completed))), Len(completed)), RInt(100))

\* without losses the factor is the profit itself instead of 0
ProfitFactorOfProfit(completed) ==
    LET total_profit == SumSeq(Positive(TradePnls(completed)))
        total_loss == Abs(SumSeq(Negative(TradePnls(completed))))
    IN  IF completed # <<>> /\ total_loss > 0 THEN Rat(total_profit, total_loss)
        ELSE RInt(total_profit)

\* total_profit / total_loss if total_loss > 0 else 0
ProfitFactor(completed) ==
    LET total_profit == SumSeq(Positive(TradePnls(completed)))
        total_loss == Abs(SumSeq(Negative(TradePnls(completed))))
    IN  IF completed # <<>> /\ total_loss > 0 THEN Rat(total_profit, total_loss)
        ELSE RZero

MaxProfit(completed) == IF completed = <<>> THEN 0 ELSE MaxSeq(TradePnls(completed))

MaxLoss(completed) == IF completed = <<>> THEN 0 ELSE MinSeq(TradePnls(completed))

\* the completed round trips instead of the raw records
TotalTradesPaired(sorted) == Len(completed_trades)

\* total_trades = len(sorted_trades)
TotalTrades(sorted) == Len(sorted)

TradeStatistics(sorted, completed) ==
    [total_trades |-> TotalTrades(sorted),
     win_rate |-> WinRate(completed),
     profit_factor |-> ProfitFactor(completed),
     max_profit |-> MaxProfit(completed),
     max_loss |-> MaxLoss(completed)]

\* the early return for "not trades"
EmptyTradeStatistics ==
    [total_trades |-> 0, win_rate |-> RZero, profit_factor |-> RZero,
     max_profit |-> 0, max_loss |-> 0]

\* where _calculate_trade_statistics returns to
TradeReturnTo(stats) ==
    IF entry = "_calculate_trade_statistics"
    THEN /\ pc' = "returned"
         /\ result' = stats
    ELSE /\ pc' = "merge"
         /\ UNCHANGED result

TradeEnter ==
    /\ pc = "calculate_trade_statistics"
    /\ IF trades = <<>>
       THEN /\ trade_stats' = EmptyTradeStatistics
            /\ TradeReturnTo(EmptyTradeStatistics)
            /\ UNCHANGED <<sorted_trades, trade_index, position_stack, completed_trades>>
       ELSE /\ sorted_trades' = SortedByDatetime(trades)
            /\ trade_index' = 0
            /\ position_stack' = <<>>
            /\ completed_trades' = <<>>
            /\ pc' = "trade_loop"
            /\ UNCHANGED <<trade_stats, result>>
    /\ UNCHANGED <<loaderVars, analysisVars, inputs, dailyLocals, summary_max_drawdown, annual_metrics>>

TradeStep ==
    /\ pc = "trade_loop"
    /\ trade_index < Len(sorted_trades)
    /\ LET trade == sorted_trades[trade_index + 1]
       IN  /\ position_stack' = StackAfter(position_stack, trade)
           /\ completed_trades' = CompletedAfter(position_stack, completed_trades, trade)
    /\ trade_index' = trade_index + 1
    /\ UNCHANGED <<loaderVars, analysisVars, inputs, dailyLocals, sorted_trades, trade_stats, pc, result,
                   summary_max_drawdown, annual_metrics>>

TradeReturn ==
    /\ pc = "trade_loop"
    /\ trade_index = Len(sorted_trades)
    /\ trade_stats' = TradeStatistics(sorted_trades, completed_trades)
    /\ TradeReturnTo(TradeStatistics(sorted_trades, completed_trades))
    /\ UNCHANGED <<loaderVars, analysisVars, inputs, dailyLocals, sorted_trades, trade_index, position_stack,
                   completed_trades, summary_max_drawdown, annual_metrics>>

----------------------------------------------------------------------------
(* calculate_backtest_statistics and its helpers                           *)

\* A float the code obtains through ** 0.5: coef * sqrt(r1) * sqrt(r2) ..., kept
\* symbolic; every product that is 0 is the one value SurdZero.
SurdZero == [coef |-> RZero, sqrt_of |-> <<>>]

Surd(coef, radicands) ==
    IF coef = RZero \/ \E j \in 1..Len(radicands) : radicands[j] = RZero
    THEN SurdZero
    ELSE [coef |-> coef, sqrt_of |-> radicands]

RECURSIVE RSum(_)
RSum(s) == IF s = <<>> THEN RZero ELSE RAdd(s[1], RSum(Tail(s)))

RECURSIVE RMinSeq(_)
RMinSeq(s) == IF Len(s) = 1 THEN s[1] ELSE RMin(s[1], RMinSeq(Tail(s)))

\* cumulative_assets and the running maximum cumulative_max
CumulativeAssets(processed, cap) ==
    [j \in 1..Len(processed) |-> cap + processed[j].total_pnl]

\* the highest equity of the whole series at every step
CumulativeMaxOfAll(assets) == [j \in 1..Len(assets) |-> MaxSeq(assets)]

RECURSIVE CumulativeMax(_)
CumulativeMax(assets) ==
    IF Len(assets) = 1 THEN assets
    ELSE LET before == CumulativeMax(SubSeq(assets, 1, Len(assets) - 1))
             current_max == before[Len(before)]
             asset == assets[Len(assets)]
         IN  Append(before, IF asset > current_max THEN asset ELSE current_max)

\* (asset - max_val) / max_val divides by the running maximum
MaxDrawdownRaises(processed, cap) ==
    \E j \in 1..Len(processed) : CumulativeMax(CumulativeAssets(processed, cap))[j] = 0

\* abs(min(drawdowns) * 100)
_calculate_max_drawdown(processed, cap) ==
    LET assets == CumulativeAssets(processed, cap)
        maxes == CumulativeMax(assets)
        drawdowns == [j \in 1..Len(assets) |-> Rat(assets[j] - maxes[j], maxes[j])]
    IN  RAbs(RMul(RMinSeq(drawdowns), RInt(100)))

\* a day-over-day return for the first day too, measured from a pnl of 0
DailyReturnsFromFirstDay(processed, cap) ==
    [j \in 1..Len(processed) |->
        Rat(processed[j].total_pnl - (IF j = 1 THEN 0 ELSE processed[j - 1].total_pnl),
            cap)]

\* daily_returns: (curr_pnl - prev_pnl) / initial_capital for i in 1..len-1
DailyReturns(processed, cap) ==
    [j \in 1..(Len(processed) - 1) |->
        Rat(processed[j + 1].total_pnl - processed[j].total_pnl, cap)]

_calculate_annual_metrics(processed, cap) ==
    LET daily_returns == DailyReturns(processed, cap)
        n == Len(daily_returns)
    IN  IF n > 0
        THEN LET avg_daily_return == RDiv(RSum(daily_returns), RInt(n))
                 squares == [j \in 1..n |->
                     RMul(RSub(daily_returns[j], avg_daily_return),
                          RSub(daily_returns[j], avg_daily_return))]
                 variance == RDiv(RSum(squares), RInt(n))
             IN  [annual_return |->
                      RMul(RMul(avg_daily_return, RInt(TRADING_DAYS_PER_YEAR)), RInt(100)),
                  \* std_daily_return * (252 ** 0.5) * 100
                  annual_volatility |->
                      Surd(RInt(100), <<variance, RInt(TRADING_DAYS_PER_YEAR)>>),
                  \* (avg * 252) / (std * 252 ** 0.5) if std > 0 else 0
                  sharpe_ratio |->
                      IF RLt(RZero, variance)
                      THEN Surd(RMul(avg_daily_return, RInt(TRADING_DAYS_PER_YEAR)),
                                <<RDiv(RInt(1), variance),
                                  Rat(1, TRADING_DAYS_PER_YEAR)>>)
                      ELSE SurdZero]
        ELSE [annual_return |-> RZero, annual_volatility |-> SurdZero,
              sharpe_ratio |-> SurdZero]

\* statistics of no activity whose profit factor is the break-even ratio 1
DefaultStatsBreakEven ==
    [total_return |-> RZero, annual_return |-> RZero, max_drawdown |-> RZero,
     sharpe_ratio |-> SurdZero, profit_factor |-> RInt(1), win_rate |-> RZero,
     total_trades |-> 0, total_pnl |-> 0, max_profit |-> 0, max_loss |-> 0,
     final_win_loss_ratio |-> RZero, annual_volatility |-> SurdZero]

\* the all-zero statistics
_get_default_stats ==
    [total_return |-> RZero, annual_return |-> RZero, max_drawdown |-> RZero,
     sharpe_ratio |-> SurdZero, profit_factor |-> RZero, win_rate |-> RZero,
     total_trades |-> 0, total_pnl |-> 0, max_profit |-> 0, max_loss |-> 0,
     final_win_loss_ratio |-> RZero, annual_volatility |-> SurdZero]

BacktestEnter ==
    /\ pc = "calculate_backtest_statistics"
    /\ IF daily_results = <<>>
       THEN /\ pc' = "returned"
            /\ result' = _get_default_stats
       ELSE /\ pc' = "process_daily_results"
            /\ UNCHANGED result
    /\ UNCHANGED <<loaderVars, analysisVars, inputs, dailyLocals, tradeLocals, summary_max_drawdown, annual_metrics>>

MaxDrawdown ==
    /\ pc = "max_drawdown"
    /\ IF MaxDrawdownRaises(processed_results, initial_capital)
       THEN /\ pc' = "raised"
            /\ result' = [error |-> "ZeroDivisionError"]
            /\ UNCHANGED summary_max_drawdown
       ELSE /\ summary_max_drawdown' =
                  _calculate_max_drawdown(processed_results, initial_capital)
            /\ pc' = "annual_metrics"
            /\ UNCHANGED result
    /\ UNCHANGED <<loaderVars, analysisVars, inputs, dailyLocals, tradeLocals, annual_metrics>>

AnnualMetrics ==
    /\ pc = "annual_metrics"
    /\ annual_metrics' = _calculate_annual_metrics(processed_results, initial_capital)
    /\ pc' = "calculate_trade_statistics"
    /\ UNCHANGED <<loaderVars, analysisVars, inputs, dailyLocals, tradeLocals, summary_max_drawdown, result>>

Merge ==
    /\ pc = "merge"
    /\ LET last == processed_results[Len(processed_results)]
       IN  result' =
             [total_return |-> last.return_ratio,
              annual_return |-> annual_metrics.annual_return,
              max_drawdown |-> summary_max_drawdown,
              sharpe_ratio |-> annual_metrics.sharpe_ratio,
              profit_factor |-> trade_stats.profit_factor,
              win_rate |-> trade_stats.win_rate,
              total_trades |-> trade_stats.total_trades,
              total_pnl |-> last.total_pnl,
              max_profit |-> trade_stats.max_profit,
              max_loss |-> trade_stats.max_loss,
              final_win_loss_ratio |-> last.win_loss_ratio,
              annual_volatility |-> annual_metrics.annual_volatility]
    /\ pc' = "returned"
    /\ UNCHANGED <<loaderVars, analysisVars, inputs, dailyLocals, tradeLocals, summary_max_drawdown, annual_metrics>>

----------------------------------------------------------------------------

NoResult == [none |-> TRUE]

\* no DataLoader call is in progress
\* nobody writes to the cache file directly
CacheIdle ==
    /\ writers = <<>>
    /\ transaction = [holder |-> 0, rows |-> {}]
    /\ cache_log = <<>>

LoaderIdle ==
    /\ CacheIdle
    /\ symbol = ""
    /\ start_date = 0
    /\ end_date = 0
    /\ market_data = {}
    /\ data_sources = <<>>
    /\ trading_calendar = NoResult
    /\ cached_data = <<>>
    /\ missing_dates = <<>>
    /\ range_index = 0
    /\ new_data = <<>>
    /\ providers = <<>>
    /\ provider_index = 0
    /\ request = 0
    /\ calls = <<>>
    /\ fetches = <<>>

InitLocals ==
    /\ cumulative_pnl = 0
    /\ win_count = 0
    /\ loss_count = 0
    /\ max_capital = 0
    /\ current_drawdown = RZero
    /\ max_drawdown = RZero
    /\ processed_results = <<>>
    /\ sorted_trades = <<>>
    /\ trade_index = 0
    /\ position_stack = <<>>
    /\ completed_trades = <<>>
    /\ trade_stats = NoResult
    /\ summary_max_drawdown = RZero
    /\ annual_metrics = NoResult
    /\ result = NoResult
    /\ trade_pairs = <<>>
    /\ enhanced_trades = <<>>

\* a call of _process_daily_results(daily_results, initial_capital)
InitDaily ==
    /\ entry = "_process_daily_results"
    /\ pc = "process_daily_results"
    /\ daily_results \in DailySeqs(NetPnls, MaxDays)
    /\ initial_capital \in Capitals
    /\ trades = <<>>
    /\ InitLocals
    /\ LoaderIdle

NextDaily == DailyEnter \/ DailyStep \/ DailyReturn

SpecDaily == InitDaily /\ [][NextDaily]_vars

MaxTrades == 3

MaxPnlTrades == 2

MaxStatTrades == 4

\* the i-th trade of a list is stamped i: the list is supplied in time order
TradeSeqs(S, n) ==
    {[i \in 1..Len(s) |->
        [datetime |-> i, symbol |-> s[i].symbol, direction |-> s[i].direction,
         offset |-> s[i].offset, price |-> s[i].price, volume |-> s[i].volume]]
     : s \in SeqsUpTo(S, n)}

\* two instruments, several entry prices: which leg a CLOSE takes
PairingTrades ==
    [symbol : {"A", "B"}, direction : {"LONG"}, offset : {"OPEN", "CLOSE"},
     price : {100, 110, 120}, volume : {10}]

\* both sides, unequal volumes: what a pair is worth
PnlTrades ==
    [symbol : {"A"}, direction : {"LONG", "SHORT", "NET"}, offset : {"OPEN", "CLOSE"},
     price : {90, 100, 110}, volume : {5, 10}]

\* up to two round trips that win, lose or break even, and trades that are neither
StatTrades ==
    [symbol : {"A"}, direction : {"LONG"}, offset : {"OPEN", "CLOSE", "NONE"},
     price : {90, 100, 110}, volume : {10}]

InitTradeCall(seqs) ==
    /\ entry = "_calculate_trade_statistics"
    /\ pc = "calculate_trade_statistics"
    /\ trades \in seqs
    /\ daily_results = <<>>
    /\ initial_capital = 0
    /\ InitLocals
    /\ LoaderIdle

InitPairing == InitTradeCall(TradeSeqs(PairingTrades, MaxTrades))

InitPnl == InitTradeCall(TradeSeqs(PnlTrades, MaxPnlTrades))

InitStat == InitTradeCall(TradeSeqs(StatTrades, MaxStatTrades))

NextTrade == TradeEnter \/ TradeStep \/ TradeReturn

\* calls of _calculate_trade_statistics(trades)
SpecPairing == InitPairing /\ [][NextTrade]_vars

SpecPnl == InitPnl /\ [][NextTrade]_vars

SpecStat == InitStat /\ [][NextTrade]_vars

MaxBtDays == 3

MaxBtTrades == 2

BtNetPnls == {Some(v) : v \in {-500, 1000, 2000}}

BtCapitals == {-1000, 0, 1000}

BtTrades ==
    [symbol : {"A"}, direction : {"LONG"}, offset : {"OPEN", "CLOSE", "NONE"},
     price : {100, 110}, volume : {10}]

\* a call of calculate_backtest_statistics(daily_results, trades, initial_capital)
InitBacktest ==
    /\ entry = "calculate_backtest_statistics"
    /\ pc = "calculate_backtest_statistics"
    /\ daily_results \in DailySeqs(BtNetPnls, MaxBtDays)
    /\ trades \in TradeSeqs(BtTrades, MaxBtTrades)
    /\ initial_capital \in BtCapitals
    /\ InitLocals
    /\ LoaderIdle

Next ==
    \/ BacktestEnter
    \/ DailyEnter
    \/ DailyStep
    \/ DailyReturn
    \/ MaxDrawdown
    \/ AnnualMetrics
    \/ TradeEnter
    \/ TradeStep
    \/ TradeReturn
    \/ Merge

Spec == InitBacktest /\ [][Next]_vars

----------------------------------------------------------------------------
(* Properties of _calculate_trade_statistics: the pairing loop             *)

\* the trade the next iteration of the loop handles
NextTradeOf == sorted_trades[trade_index + 1]

\* an iteration that emits a pair
PairingStep ==
    /\ pc = "trade_loop"
    /\ trade_index' = trade_index + 1
    /\ Len(completed_trades') = Len(completed_trades) + 1

EmittedPair == completed_trades'[Len(completed_trades')]

\* C1 as stated: every CLOSE that finds pending OPEN legs is paired with the
\* OLDEST pending leg (first in, first out): the pair carries the entry price of
\* the first leg of position_stack and that leg is the one removed.
C1_PairsOldestOpen ==
    [][PairingStep =>
         /\ EmittedPair.open_price = position_stack[1].price
         /\ position_stack' = Tail(position_stack)]_vars

\* C1 amended: every CLOSE that finds pending OPEN legs is paired with the MOST
\* RECENT pending leg (last in, first out): the pair carries the entry price of
\* the last leg of position_stack, that leg is removed and the older legs stay.
C1_PairsNewestOpen ==
    [][PairingStep =>
         /\ EmittedPair.open_price = position_stack[Len(position_stack)].price
         /\ position_stack' = SubSeq(position_stack, 1, Len(position_stack) - 1)]_vars

\* OPEN@100, OPEN@120, CLOSE@110 has been paired: the pair's entry price is 120
C1_Witness ==
    /\ pc = "returned"
    /\ Len(sorted_trades) = 3
    /\ sorted_trades[1].offset = "OPEN" /\ sorted_trades[1].price = 100
    /\ sorted_trades[2].offset = "OPEN" /\ sorted_trades[2].price = 120
    /\ sorted_trades[3].offset = "CLOSE" /\ sorted_trades[3].price = 110
    /\ Len(completed_trades) = 1
    /\ completed_trades[1].open_price = 120
    /\ Len(position_stack) = 1
    /\ position_stack[1].price = 100

\* C2: a CLOSE of symbol X is only ever paired with an OPEN leg of symbol X: the
\* leg an emitting iteration removes from position_stack has the CLOSE's symbol.
C2_PairsSameSymbol ==
    [][PairingStep =>
         \E j \in 1..Len(position_stack) :
            /\ position_stack' = RemoveAt(position_stack, j)
            /\ position_stack[j].trade.symbol = NextTradeOf.symbol]_vars

\* C3: every emitted pair has volume min(close.volume, open.volume) and PnL
\* (close - open) * volume if the leg was recorded LONG, (open - close) * volume
\* if SHORT, whatever direction the CLOSE trade states.
C3_PairVolumeAndPnl ==
    [][PairingStep =>
         \E j \in 1..Len(position_stack) :
            LET leg == position_stack[j]
                close == NextTradeOf
                matched == IF close.volume < leg.trade.volume
                           THEN close.volume ELSE leg.trade.volume
            IN  /\ position_stack' = RemoveAt(position_stack, j)
                /\ leg.direction \in {"LONG", "SHORT"}
                /\ leg.trade.direction \in {"LONG", "SHORT"}
                       => leg.direction = leg.trade.direction
                /\ EmittedPair.direction = leg.direction
                /\ EmittedPair.volume = matched
                /\ leg.direction = "LONG"
                       => EmittedPair.pnl = (close.price - leg.trade.price) * matched
                /\ leg.direction = "SHORT"
                       => EmittedPair.pnl = (leg.trade.price - close.price) * matched]_vars

\* OPEN SHORT @100 x10 then a CLOSE stated LONG @90 x5: 5 matched, PnL 50
C3_Witness ==
    /\ pc = "returned"
    /\ Len(sorted_trades) = 2
    /\ sorted_trades[1].offset = "OPEN" /\ sorted_trades[1].direction = "SHORT"
    /\ sorted_trades[1].price = 100 /\ sorted_trades[1].volume = 10
    /\ sorted_trades[2].offset = "CLOSE" /\ sorted_trades[2].direction = "LONG"
    /\ sorted_trades[2].price = 90 /\ sorted_trades[2].volume = 5
    /\ completed_trades = <<[open_price |-> 100, close_price |-> 90,
                             direction |-> "SHORT", volume |-> 5, pnl |-> 50]>>

\* the pairs and the stack the loop leaves for a list of trades
RECURSIVE StackOf(_)
StackOf(s) ==
    IF s = <<>> THEN <<>>
    ELSE StackAfter(StackOf(SubSeq(s, 1, Len(s) - 1)), s[Len(s)])

RECURSIVE PairsOf(_)
PairsOf(s) ==
    IF s = <<>> THEN <<>>
    ELSE LET before == SubSeq(s, 1, Len(s) - 1)
         IN  CompletedAfter(StackOf(before), PairsOf(before), s[Len(s)])

\* the list without the CLOSE trades that arrive when no leg is pending
RECURSIVE WithoutUnmatched(_)
WithoutUnmatched(s) ==
    IF s = <<>> THEN <<>>
    ELSE LET before == SubSeq(s, 1, Len(s) - 1)
             t == s[Len(s)]
         IN  IF t.offset = "CLOSE" /\ StackOf(before) = <<>>
             THEN WithoutUnmatched(before)
             ELSE Append(WithoutUnmatched(before), t)

\* an iteration that handles a CLOSE trade while no OPEN leg is pending
UnmatchedCloseStep ==
    /\ pc = "trade_loop"
    /\ trade_index' = trade_index + 1
    /\ NextTradeOf.offset = "CLOSE"
    /\ position_stack = <<>>

\* C4: a CLOSE that arrives when no OPEN leg is pending emits no pair, raises
\* nothing and leaves position_stack as it was; and the pairs of the whole list
\* are those of the list without such CLOSE trades.
C4_UnmatchedCloseDropped ==
    /\ [][UnmatchedCloseStep =>
            /\ position_stack' = position_stack
            /\ completed_trades' = completed_trades
            /\ pc' = "trade_loop"]_vars
    /\ [](pc = "returned" /\ trades # <<>> =>
            /\ completed_trades = PairsOf(WithoutUnmatched(sorted_trades))
            /\ position_stack = StackOf(WithoutUnmatched(sorted_trades)))

\* CLOSE, OPEN, CLOSE: the first CLOSE was dropped, the second one paired
C4_Witness ==
    /\ pc = "returned"
    /\ Len(sorted_trades) = 3
    /\ sorted_trades[1].offset = "CLOSE"
    /\ sorted_trades[2].offset = "OPEN"
    /\ sorted_trades[3].offset = "CLOSE"
    /\ Len(completed_trades) = 1
    /\ completed_trades[1].open_price = sorted_trades[2].price
    /\ position_stack = <<>>

----------------------------------------------------------------------------
(* Properties of the trade statistics                                      *)

\* C5 as stated: for every input, the total_trades that
\* calculate_backtest_statistics reports is the number of raw trade records.
C5_TotalTradesIsRawCount ==
    pc = "returned" => result.total_trades = Len(trades)

\* C5 amended: total_trades is the number of raw trade records supplied (OPEN,
\* CLOSE or neither, matched or not) whenever daily_results is not empty; with
\* empty daily_results the default statistics are returned and total_trades is 0.
C5_TotalTradesUnlessNoDays ==
    pc = "returned" =>
        result.total_trades = IF daily_results = <<>> THEN 0 ELSE Len(trades)

\* two raw records, none of them paired, are reported as 2 trades
C5_Witness ==
    /\ pc = "returned"
    /\ daily_results # <<>>
    /\ Len(trades) = 2
    /\ completed_trades = <<>>
    /\ result.total_trades = 2

PairCount == Len(completed_trades)

Winners == {j \in 1..PairCount : completed_trades[j].pnl > 0}

Losers == {j \in 1..PairCount : completed_trades[j].pnl < 0}

RECURSIVE PnlSum(_)
PnlSum(J) ==
    IF J = {} THEN 0
    ELSE LET j == CHOOSE x \in J : TRUE
         IN  completed_trades[j].pnl + PnlSum(J \ {j})

\* C6: win_rate = 100 * (pairs with PnL > 0) / (pairs); 0 without pairs; within
\* [0, 100]; a pair with PnL exactly 0 is in the denominator and is not a win.
C6_WinRate ==
    pc = "returned" =>
        LET r == result.win_rate
        IN  /\ r[2] > 0
            /\ r[1] * PairCount = 100 * Cardinality(Winners) * r[2]
            /\ PairCount = 0 => r[1] = 0
            /\ 0 <= r[1] /\ r[1] <= 100 * r[2]

\* a winning pair and a break-even pair: win_rate is 50
C6_Witness ==
    /\ pc = "returned"
    /\ PairCount = 2
    /\ completed_trades[1].pnl > 0
    /\ completed_trades[2].pnl = 0
    /\ result.win_rate = <<50, 1>>

\* C7: profit_factor = (sum of positive PnLs) / |sum of negative PnLs| when some
\* pair lost, 0 when none did (also when every pair won); max_profit and max_loss
\* are the largest and the smallest pair PnL, so max_loss <= max_profit.
C7_ProfitFactorAndExtremes ==
    pc = "returned" =>
        LET f == result.profit_factor
        IN  /\ f[2] > 0
            /\ Losers # {} => f[1] * (-PnlSum(Losers)) = PnlSum(Winners) * f[2]
            /\ Losers = {} => f[1] = 0
            /\ PairCount > 0 =>
                 /\ \E j \in 1..PairCount : completed_trades[j].pnl = result.max_profit
                 /\ \E j \in 1..PairCount : completed_trades[j].pnl = result.max_loss
                 /\ \A j \in 1..PairCount :
                       /\ completed_trades[j].pnl <= result.max_profit
                       /\ completed_trades[j].pnl >= result.max_loss
            /\ result.max_loss <= result.max_profit

\* a pair that won 100 and a pair that lost 200: factor 1/2, extremes 100, -200
C7_Witness ==
    /\ pc = "returned"
    /\ PairCount = 2
    /\ completed_trades[1].pnl = 100
    /\ completed_trades[2].pnl = -200
    /\ result.profit_factor = <<1, 2>>
    /\ result.max_profit = 100
    /\ result.max_loss = -200

----------------------------------------------------------------------------
(* Properties of _process_daily_results                                    *)

\* the net_pnl of the i-th input record as a number (None is 0)
InputNetPnl(i) == IF daily_results[i].net_pnl = <<>> THEN 0 ELSE daily_results[i].net_pnl[1]

RECURSIVE NetPnlSum(_)
NetPnlSum(i) == IF i = 0 THEN 0 ELSE InputNetPnl(i) + NetPnlSum(i - 1)

\* C8: the output has one record per input record, in the same order; record
\* i carries the sum of net_pnl of records 1..i as total_pnl, so the last one
\* carries the sum of all; empty input gives empty output.
C8_CumulativeTotalPnl ==
    /\ Len(processed_results) <= Len(daily_results)
    /\ \A i \in 1..Len(processed_results) :
          /\ processed_results[i].date = daily_results[i].date
          /\ processed_results[i].net_pnl = InputNetPnl(i)
          /\ processed_results[i].total_pnl = NetPnlSum(i)
    /\ pc = "returned" =>
          /\ result.processed_results = processed_results
          /\ Len(result.processed_results) = Len(daily_results)
          /\ daily_results = <<>> => result.processed_results = <<>>
          /\ daily_results # <<>> =>
                processed_results[Len(processed_results)].total_pnl =
                    NetPnlSum(Len(daily_results))

\* 1000.00, -500.00, 2000.00: the last record carries 2500.00
C8_Witness ==
    /\ pc = "returned"
    /\ Len(daily_results) = 3
    /\ InputNetPnl(1) = 100000 /\ InputNetPnl(2) = -50000 /\ InputNetPnl(3) = 200000
    /\ Len(result.processed_results) = 3
    /\ result.processed_results[2].total_pnl = 50000
    /\ result.processed_results[3].total_pnl = 250000

AllDaysPositive ==
    /\ daily_results # <<>>
    /\ \A i \in 1..Len(daily_results) :
          daily_results[i].net_pnl # <<>> /\ daily_results[i].net_pnl[1] > 0

\* C9: when every net_pnl is positive and initial_capital > 0, every emitted
\* record has drawdown 0 and max_drawdown 0, and the summary max_drawdown is 0.
C9_NoDrawdownWhenAllPositive ==
    AllDaysPositive /\ initial_capital > 0 =>
        /\ pc # "raised"
        /\ \A i \in 1..Len(processed_results) :
              /\ processed_results[i].drawdown = <<0, 1>>
              /\ processed_results[i].max_drawdown = <<0, 1>>
        /\ pc \in {"annual_metrics", "calculate_trade_statistics", "trade_loop",
                   "merge", "returned"} => summary_max_drawdown = <<0, 1>>
        /\ pc = "returned" => result.max_drawdown = <<0, 1>>

\* three rising days have been summarised
C9_Witness ==
    /\ pc = "returned"
    /\ AllDaysPositive
    /\ initial_capital > 0
    /\ Len(daily_results) = 3
    /\ Len(processed_results) = 3
    /\ result.max_drawdown = <<0, 1>>
    /\ result.total_pnl > 0

\* 0.01 is one unit
WinDays(i) == {j \in 1..i : InputNetPnl(j) > 1}

LossDays(i) == {j \in 1..i : InputNetPnl(j) < -1}

\* C10: record i carries win_count / loss_count if loss_count > 0, else
\* win_count if win_count > 0, else 0, where win_count counts the days so far
\* with net_pnl > 0.01 and loss_count those with net_pnl < -0.01.
C10_WinLossRatio ==
    \A i \in 1..Len(processed_results) :
        LET w == Cardinality(WinDays(i))
            l == Cardinality(LossDays(i))
            r == processed_results[i].win_loss_ratio
        IN  /\ r[2] > 0
            /\ l > 0 => r[1] * l = w * r[2]
            /\ l = 0 => r = <<w, 1>>
            /\ i = Len(processed_results) /\ pc = "daily_loop" =>
                  win_count = w /\ loss_count = l

\* 1000.00, -500.00, 2000.00 gives 2; the day of -500.00 had given 1
C10_Witness ==
    /\ pc = "returned"
    /\ Len(daily_results) = 3
    /\ InputNetPnl(1) = 100000 /\ InputNetPnl(2) = -50000 /\ InputNetPnl(3) = 200000
    /\ processed_results[2].win_loss_ratio = <<1, 1>>
    /\ processed_results[3].win_loss_ratio = <<2, 1>>

\* the day-over-day returns of days 2..n are all the same: their standard
\* deviation is 0 (one return, of a two-day series, always is)
StdOfReturnsIsZero ==
    /\ Len(daily_results) >= 2
    /\ \A i, j \in 2..Len(daily_results) : InputNetPnl(i) = InputNetPnl(j)

CountFields == {"total_trades", "total_pnl", "max_profit", "max_loss"}

RatioFields ==
    {"total_return", "annual_return", "max_drawdown", "profit_factor", "win_rate",
     "final_win_loss_ratio"}

RootFields == {"sharpe_ratio", "annual_volatility"}

\* C12: with no daily results and no trades the call does not raise and
\* returns the statistics with every one of the twelve fields equal to 0.
C12_EmptyInputsAllZero ==
    daily_results = <<>> /\ trades = <<>> =>
        /\ pc # "raised"
        /\ pc = "returned" =>
              /\ DOMAIN result = CountFields \cup RatioFields \cup RootFields
              /\ \A f \in CountFields : result[f] = 0
              /\ \A f \in RatioFields : result[f] = <<0, 1>>
              /\ \A f \in RootFields : result[f] = [coef |-> <<0, 1>>, sqrt_of |-> <<>>]

\* the call with nothing in it has returned
C12_Witness ==
    /\ pc = "returned"
    /\ daily_results = <<>>
    /\ trades = <<>>
    /\ Cardinality(DOMAIN result) = 12
    /\ result.total_trades = 0

\* C13: a call with a non-empty daily series and initial_capital <= 0 never
\* returns: it ends in an error.
C13_NonPositiveCapitalRaises ==
    daily_results # <<>> /\ initial_capital <= 0 => pc # "returned"

----------------------------------------------------------------------------
(* DataLoader.  A date is a day number, day 1 being a Monday, whatever the  *)
(* text form ('YYYY-MM-DD', 'YYYYMMDD') it travels in; a bar is             *)
(* [symbol, datetime, close_price, gateway_name]; a row of market_data is   *)
(* [symbol, data_type, data_source, trade_date, close_price].               *)

\* the days that may lie between two missing days of one range
MERGE_GAP_DAYS == 7

\* symbol.split('.')
SplitDot(sym) ==
    CASE sym = "000300.SH" -> <<"000300", "SH">>
      [] sym = "HK.00700" -> <<"HK", "00700">>
      [] OTHER -> <<sym>>

_determine_market(sym) ==
    LET parts == SplitDot(sym)
    IN  IF Len(parts) > 1 /\ parts[Len(parts)] \in {"SH", "SZ"} THEN "CN"
        ELSE IF Len(parts) > 1 /\ parts[1] = "HK" THEN "HK"
        ELSE "US"

Markets == {"CN", "HK", "US"}

\* pd.date_range(start, end, freq='B'): Monday to Friday
BusinessDays(s, e) == {d \in s..e : (d - 1) % 7 < 5}

\* the trading days of a market in [s, e]: the business days that are no
\* holiday of the market
get_trading_days_in_range(s, e, market) ==
    BusinessDays(s, e) \ trading_calendar.holidays[market]

\* all_trading_dates: the calendar's days, or the business days when the
\* calendar raises
AllTradingDates(s, e, market) ==
    IF trading_calendar.available
    THEN get_trading_days_in_range(s, e, market)
    ELSE BusinessDays(s, e)

\* the cached bars are not looked at
NoCachedDates(cached) == {}

\* cached_dates
CachedDates(cached) == {cached[j].datetime : j \in 1..Len(cached)}

\* market: "CN" unless there is a first cached bar to take the symbol from
MarketOfCache(cached) ==
    IF cached # <<>> THEN _determine_market(cached[1].symbol) ELSE "CN"

\* sorted(...)
RECURSIVE SortedDates(_)
SortedDates(S) ==
    IF S = {} THEN <<>>
    ELSE LET first == CHOOSE d \in S : \A other \in S : d <= other
         IN  <<first>> \o SortedDates(S \ {first})

\* two missing days that are less than the tolerance apart
WithinGapExclusive(prev_date, current_date) ==
    current_date - prev_date < MERGE_GAP_DAYS

\* (current_date - prev_date).days <= 7
WithinGap(prev_date, current_date) ==
    current_date - prev_date <= MERGE_GAP_DAYS

\* the loop over missing_dates[i], i >= 1, and the final append
RECURSIVE MergeScan(_, _, _, _, _)
MergeScan(missing, i, range_start, range_end, ranges) ==
    IF i > Len(missing)
    THEN Append(ranges, <<range_start, range_end>>)
    ELSE IF WithinGap(missing[i - 1], missing[i])
         THEN MergeScan(missing, i + 1, range_start, missing[i], ranges)
         ELSE MergeScan(missing, i + 1, missing[i], missing[i],
                        Append(ranges, <<range_start, range_end>>))

\* _get_missing_dates below its first test
MissingRanges(cached, s, e) ==
    LET missing == SortedDates(AllTradingDates(s, e, MarketOfCache(cached))
                                   \ CachedDates(cached))
    IN  IF missing = <<>> THEN <<>>
        ELSE MergeScan(missing, 2, missing[1], missing[1], <<>>)

\* the ranges of the calendar's days even when nothing is cached
MissingDatesOfCalendar(cached, s, e) == MissingRanges(cached, s, e)

_get_missing_dates(cached, s, e) ==
    IF cached = <<>> THEN << <<s, e>> >> ELSE MissingRanges(cached, s, e)

\* a call of _get_missing_dates(cached_data, start_date, end_date)
MissingDatesCall ==
    /\ pc = "_get_missing_dates"
    /\ result' = _get_missing_dates(cached_data, start_date, end_date)
    /\ pc' = "returned"
    /\ UNCHANGED <<entry, statisticsVars, loaderVars>>

\* the bar _get_cached_data makes of a row
CachedBar(row) ==
    [symbol |-> row.symbol, datetime |-> row.trade_date,
     close_price |-> row.close_price, gateway_name |-> <<"CACHE", row.data_source>>]

StatisticsIdle ==
    /\ daily_results = <<>>
    /\ trades = <<>>
    /\ initial_capital = 0
    /\ InitLocals

MaxGapDate == 10

\* the calendar raises; it knows no holiday; the second Monday is a holiday
GapCalendars ==
    {[available |-> a, holidays |-> [m \in Markets |-> IF m = "CN" THEN h ELSE {}]]
     : a \in BOOLEAN, h \in {{}, {8}}} \
    {[available |-> FALSE, holidays |-> [m \in Markets |-> IF m = "CN" THEN {8} ELSE {}]]}

\* the bars read from the rows of one source on the days of S
CachedBarsOn(sym, S) ==
    LET days == SortedDates(S)
    IN  [j \in 1..Len(days) |->
            CachedBar([symbol |-> sym, data_type |-> "index", data_source |-> "tushare",
                       trade_date |-> days[j], close_price |-> 100])]

InitGaps ==
    /\ entry = "_get_missing_dates"
    /\ pc = "_get_missing_dates"
    /\ symbol = "000300.SH"
    /\ start_date \in 1..MaxGapDate
    /\ end_date \in 1..MaxGapDate
    /\ \E S \in SUBSET BusinessDays(1, MaxGapDate) : cached_data = CachedBarsOn(symbol, S)
    /\ trading_calendar \in GapCalendars
    /\ market_data = {}
    /\ data_sources = <<>>
    /\ missing_dates = <<>>
    /\ range_index = 0
    /\ new_data = <<>>
    /\ providers = <<>>
    /\ provider_index = 0
    /\ request = 0
    /\ calls = <<>>
    /\ fetches = <<>>
    /\ CacheIdle
    /\ StatisticsIdle

NextGaps == MissingDatesCall

\* calls of _get_missing_dates
SpecGaps == InitGaps /\ [][NextGaps]_vars

----------------------------------------------------------------------------
(* DataProviderFactory and the providers.  data_sources[src] holds the      *)
(* configuration of a source (enabled, priority), the symbols its provider  *)
(* supports and what the provider answers: it raises, it has nothing, or it *)
(* has bars for its dates, some of them without a price (NaN).              *)

\* self._providers in the order initialize() fills it
SourceOrder == <<"tushare", "futu">>

\* enabled_sources.sort(key = priority): stable
RECURSIVE InsertByPriority(_, _)
InsertByPriority(s, src) ==
    IF s = <<>> THEN <<src>>
    ELSE IF data_sources[s[Len(s)]].priority <= data_sources[src].priority
         THEN Append(s, src)
         ELSE Append(InsertByPriority(SubSeq(s, 1, Len(s) - 1), src), s[Len(s)])

RECURSIVE SortedByPriority(_)
SortedByPriority(s) ==
    IF s = <<>> THEN <<>>
    ELSE InsertByPriority(SortedByPriority(SubSeq(s, 1, Len(s) - 1)), s[Len(s)])

EnabledSources == SelectSeq(SourceOrder, LAMBDA src : data_sources[src].enabled)

\* the enabled providers in the order the factory holds them
ProvidersAsRegistered == EnabledSources

get_providers_by_priority == SortedByPriority(EnabledSources)

\* every provider is taken to support every symbol
SupportsAnySymbol(src, sym) == TRUE

is_symbol_supported(src, sym) == sym \in data_sources[src].supported

find_providers_for_symbol(sym) ==
    SelectSeq(get_providers_by_priority, LAMBDA src : is_symbol_supported(src, sym))

\* gateway_name of the bars a provider builds
GatewayName(src) == IF src = "tushare" THEN "TUSHARE" ELSE "FUTU"

\* symbol of the bars a provider builds: split('.')[0] and split('.')[-1]
BarSymbol(src, sym) ==
    LET parts == SplitDot(sym)
    IN  IF src = "tushare" THEN parts[1] ELSE parts[Len(parts)]

\* provider.get_historical_data(symbol, start_date, end_date): whether it
\* raised, and the bars (none: None or an empty list)
get_historical_data(src, sym, s, e) ==
    LET source == data_sources[src]
        days == SortedDates({d \in source.dates : s <= d /\ d <= e})
    IN  IF source.response = "raise" THEN [raised |-> TRUE, data |-> <<>>]
        ELSE IF source.response = "empty" \/ ~is_symbol_supported(src, sym)
        THEN [raised |-> FALSE, data |-> <<>>]
        ELSE [raised |-> FALSE,
              data |-> [j \in 1..Len(days) |->
                  [symbol |-> BarSymbol(src, sym), datetime |-> days[j],
                   close_price |-> IF days[j] \in source.malformed
                                   THEN None ELSE Some(source.close_price),
                   gateway_name |-> GatewayName(src)]]]

\* symbol_info['type'] of the symbol table
SymbolType(sym) == IF sym = "000300.SH" THEN "index" ELSE "stock"

_get_data_type(sym, src) ==
    IF is_symbol_supported(src, sym) THEN SymbolType(sym) ELSE "stock"

----------------------------------------------------------------------------
(* The table market_data                                                   *)

\* UNIQUE(symbol, data_type, data_source, trade_date)
RowKey(row) == <<row.symbol, row.data_type, row.data_source, row.trade_date>>

\* INSERT OR IGNORE: a row whose key is taken is left as it is
InsertOrIgnore(table, row) ==
    IF \E r \in table : RowKey(r) = RowKey(row) THEN table ELSE table \cup {row}

\* a plain INSERT into a table without the UNIQUE constraint
InsertRow(table, row) == table \cup {row}

\* INSERT OR REPLACE
Upsert(table, row) == {r \in table : RowKey(r) # RowKey(row)} \cup {row}

\* close_price REAL NOT NULL: a bar without a price is rejected
UpsertFails(bar) == bar.close_price = None

\* a cache write that writes nothing
SaveNothing(table, sym, bars, data_type, data_source) == table

\* the table after _save_to_cache: each bar is upserted, a bar whose upsert
\* fails is skipped
RECURSIVE _save_to_cache(_, _, _, _, _)
_save_to_cache(table, sym, bars, data_type, data_source) ==
    IF bars = <<>> THEN table
    ELSE LET bar == Head(bars)
             row == [symbol |-> sym, data_type |-> data_type,
                     data_source |-> data_source, trade_date |-> bar.datetime,
                     close_price |-> bar.close_price]
         IN  _save_to_cache(IF UpsertFails(bar) THEN table ELSE Upsert(table, row),
                            sym, Tail(bars), data_type, data_source)

\* WHERE symbol = ? AND trade_date >= ? AND trade_date <= ?
SelectedRows(table, sym, s, e) ==
    {row \in table : row.symbol = sym /\ s <= row.trade_date /\ row.trade_date <= e}

\* ORDER BY trade_date: every order of the rows that is ascending in the
\* date (rows of two sources for one date come in either order)
RECURSIVE OrderedByTradeDate(_)
OrderedByTradeDate(rows) ==
    IF rows = {} THEN {<<>>}
    ELSE UNION {{<<CachedBar(first)>> \o rest : rest \in OrderedByTradeDate(rows \ {first})}
                : first \in {r \in rows : \A q \in rows : r.trade_date <= q.trade_date}}

\* the lists of bars _get_cached_data may return
_get_cached_data(table, sym, s, e) == OrderedByTradeDate(SelectedRows(table, sym, s, e))

----------------------------------------------------------------------------
(* _get_remote_data_multi_source and get_index_data                        *)

\* the range being fetched: the arguments of a direct call, or the
\* date_range of the loop of get_index_data
CurrentRange ==
    IF entry = "_get_remote_data_multi_source"
    THEN <<start_date, end_date>>
    ELSE missing_dates[range_index]

\* the loop gives up at the first provider without data
AbortAfterFailure(index, provs) == Len(provs) + 1

\* after a provider raised or had nothing the loop goes on to the next one
AfterFailure(index, provs) == index + 1

\* the result holds the new bars only
MergedNewOnly(cached, new) == SortedByDatetime(new)

\* all_data = cached_data + new_data; all_data.sort(key = datetime)
MergedData(cached, new) == SortedByDatetime(cached \o new)

\* _get_remote_data_multi_source returns data (None or Some(bars)) obtained
\* from source (None or Some(src))
RemoteReturn(data, source) ==
    /\ fetches' = Append(fetches, [request |-> request, range |-> CurrentRange,
                                   source |-> source, data |-> data])
    /\ IF entry = "_get_remote_data_multi_source"
       THEN /\ result' = data
            /\ pc' = "returned"
            /\ UNCHANGED <<new_data, range_index>>
       ELSE /\ new_data' = IF data # None THEN new_data \o data[1] ELSE new_data
            /\ range_index' = range_index + 1
            /\ pc' = "fetch_ranges"
            /\ UNCHANGED result

RemoteEnter ==
    /\ pc = "_get_remote_data_multi_source"
    /\ providers' = find_providers_for_symbol(symbol)
    /\ IF providers' = <<>>
       THEN /\ RemoteReturn(None, None)
            /\ UNCHANGED provider_index
       ELSE /\ provider_index' = 1
            /\ pc' = "provider_loop"
            /\ UNCHANGED <<fetches, result, new_data, range_index>>
    /\ UNCHANGED <<entry, statisticsVars, cacheVars, loaderArgs, market_data, environment,
                   cached_data, missing_dates, request, calls>>

\* one iteration of the loop over providers
ProviderCall ==
    /\ pc = "provider_loop"
    /\ provider_index <= Len(providers)
    /\ LET provider == providers[provider_index]
           answer == get_historical_data(provider, symbol, CurrentRange[1], CurrentRange[2])
       IN  /\ calls' = Append(calls, [request |-> request, provider |-> provider,
                                      symbol |-> symbol, range |-> CurrentRange])
           /\ IF ~answer.raised /\ answer.data # <<>>
              THEN /\ market_data' = _save_to_cache(market_data, symbol, answer.data,
                                                    _get_data_type(symbol, provider), provider)
                   /\ RemoteReturn(Some(answer.data), Some(provider))
                   /\ UNCHANGED provider_index
              ELSE /\ provider_index' = AfterFailure(provider_index, providers)
                   /\ UNCHANGED <<market_data, fetches, result, new_data, range_index, pc>>
    /\ UNCHANGED <<entry, statisticsVars, cacheVars, loaderArgs, environment, cached_data,
                   missing_dates, providers, request>>

\* the loop over providers ended without data
ProvidersExhausted ==
    /\ pc = "provider_loop"
    /\ provider_index > Len(providers)
    /\ RemoteReturn(None, None)
    /\ UNCHANGED <<entry, statisticsVars, cacheVars, loaderArgs, market_data, environment,
                   cached_data, missing_dates, remoteLocals, request, calls>>

\* get_index_data up to the loop over the missing ranges
GetIndexData ==
    /\ pc = "get_index_data"
    /\ \E read \in _get_cached_data(market_data, symbol, start_date, end_date) :
          /\ cached_data' = read
          /\ missing_dates' = _get_missing_dates(read, start_date, end_date)
          /\ IF missing_dates' = <<>>
             THEN /\ result' = read
                  /\ pc' = "returned"
                  /\ UNCHANGED <<new_data, range_index>>
             ELSE /\ new_data' = <<>>
                  /\ range_index' = 1
                  /\ pc' = "fetch_ranges"
                  /\ UNCHANGED result
    /\ UNCHANGED <<entry, statisticsVars, cacheVars, loaderArgs, market_data, environment,
                   remoteLocals, request, calls, fetches>>

\* for date_range in missing_dates
FetchRange ==
    /\ pc = "fetch_ranges"
    /\ range_index <= Len(missing_dates)
    /\ pc' = "_get_remote_data_multi_source"
    /\ UNCHANGED <<entry, result, statisticsVars, loaderVars>>

\* the cached and the new bars are merged and returned
GetIndexDataReturn ==
    /\ pc = "fetch_ranges"
    /\ range_index > Len(missing_dates)
    /\ result' = MergedData(cached_data, new_data)
    /\ pc' = "returned"
    /\ UNCHANGED <<entry, statisticsVars, loaderVars>>

MaxRequests == 2

\* the caller asks get_index_data for the same symbol and dates once more
RepeatRequest ==
    /\ entry = "get_index_data"
    /\ pc = "returned"
    /\ request < MaxRequests
    /\ request' = request + 1
    /\ pc' = "get_index_data"
    /\ UNCHANGED <<entry, result, statisticsVars, cacheVars, loaderArgs, market_data, environment,
                   indexLocals, remoteLocals, calls, fetches>>

----------------------------------------------------------------------------
(* Calls of the DataLoader                                                 *)

\* a provider raises, has nothing, or has bars for all the days of D or for
\* the days of `some` only, with or without a price for the day `bad`
Answers(D, some, bad) ==
    {[response |-> r, dates |-> {}, malformed |-> {}] : r \in {"raise", "empty"}} \cup
    {[response |-> "bars", dates |-> days, malformed |-> m]
     : days \in {D, some}, m \in {{}, {bad}}}

SourceRecord(src, enabled, priority, supported, answer) ==
    [enabled |-> enabled, priority |-> priority, supported |-> supported,
     response |-> answer.response, dates |-> answer.dates,
     malformed |-> answer.malformed,
     close_price |-> IF src = "tushare" THEN 100 ELSE 101]

\* the two sources, each with a configuration of C and an answer of A
DataSourcesOver(C, A) ==
    {[src \in {"tushare", "futu"} |->
        IF src = "tushare"
        THEN SourceRecord(src, t[1].enabled, t[1].priority, t[1].supported, t[2])
        ELSE SourceRecord(src, f[1].enabled, f[1].priority, f[1].supported, f[2])]
     : t \in C \X A, f \in C \X A}

\* the calendar raises
NoCalendar == [available |-> FALSE, holidays |-> [m \in Markets |-> {}]]

\* a row written earlier, at another price
OldRow(sym, src, d) ==
    [symbol |-> sym, data_type |-> SymbolType(sym), data_source |-> src,
     trade_date |-> d, close_price |-> Some(99)]

MaxFetchDate == 3

MaxPriority == 2

\* a call of _get_remote_data_multi_source(symbol, start_date, end_date)
InitFetch ==
    /\ entry = "_get_remote_data_multi_source"
    /\ pc = "_get_remote_data_multi_source"
    /\ symbol = "000300.SH"
    /\ start_date = 1
    /\ end_date = MaxFetchDate
    /\ market_data \in {{}, {OldRow(symbol, "tushare", 2)}}
    /\ data_sources \in
          DataSourcesOver([enabled : BOOLEAN, priority : 1..MaxPriority,
                           supported : {{}, {symbol}}],
                          Answers(1..MaxFetchDate, {2}, 2))
    /\ trading_calendar = NoCalendar
    /\ cached_data = <<>>
    /\ missing_dates = <<>>
    /\ range_index = 0
    /\ new_data = <<>>
    /\ providers = <<>>
    /\ provider_index = 0
    /\ request = 1
    /\ calls = <<>>
    /\ fetches = <<>>
    /\ CacheIdle
    /\ StatisticsIdle

NextFetch == RemoteEnter \/ ProviderCall \/ ProvidersExhausted

SpecFetch == InitFetch /\ [][NextFetch]_vars

MaxLoadDate == 10

MaxMissing == 2

\* the sets of days of the window that lack at most MaxMissing business days
NearlyFull(s, e) ==
    {BusinessDays(s, e) \ gone
     : gone \in {g \in SUBSET BusinessDays(s, e) : Cardinality(g) <= MaxMissing}}

\* requests of get_index_data(symbol, start_date, end_date) on a table that
\* is empty or holds the rows of all the business days but a few
InitLoader ==
    /\ entry = "get_index_data"
    /\ pc = "get_index_data"
    /\ symbol = "000300.SH"
    /\ start_date = 1
    /\ end_date = MaxLoadDate
    /\ \E days \in {{}} \cup NearlyFull(start_date, end_date) :
          market_data = {OldRow(symbol, "tushare", d) : d \in days}
    /\ data_sources \in
          DataSourcesOver({[enabled |-> TRUE, priority |-> 1, supported |-> sup]
                           : sup \in {{}, {symbol}}},
                          Answers(1..MaxLoadDate, 1..5, 1))
    /\ trading_calendar \in GapCalendars
    /\ cached_data = <<>>
    /\ missing_dates = <<>>
    /\ range_index = 0
    /\ new_data = <<>>
    /\ providers = <<>>
    /\ provider_index = 0
    /\ request = 1
    /\ calls = <<>>
    /\ fetches = <<>>
    /\ CacheIdle
    /\ StatisticsIdle

NextLoader ==
    \/ GetIndexData
    \/ FetchRange
    \/ RemoteEnter
    \/ ProviderCall
    \/ ProvidersExhausted
    \/ GetIndexDataReturn

SpecLoader == InitLoader /\ [][NextLoader]_vars

MaxRepeatDate == 3

\* requests of get_index_data that are repeated, on a table that holds rows
\* for any of the days of a short window
InitRepeat ==
    /\ entry = "get_index_data"
    /\ pc = "get_index_data"
    /\ symbol = "000300.SH"
    /\ start_date = 1
    /\ end_date = MaxRepeatDate
    /\ \E days \in SUBSET BusinessDays(start_date, end_date) :
          market_data = {OldRow(symbol, "tushare", d) : d \in days}
    /\ data_sources \in
          DataSourcesOver([enabled : {TRUE}, priority : 1..MaxPriority,
                           supported : {{symbol}}],
                          Answers(1..MaxRepeatDate, {2}, 2))
    /\ trading_calendar \in
          {NoCalendar,
           [available |-> TRUE, holidays |-> [m \in Markets |-> IF m = "CN" THEN {3} ELSE {}]]}
    /\ cached_data = <<>>
    /\ missing_dates = <<>>
    /\ range_index = 0
    /\ new_data = <<>>
    /\ providers = <<>>
    /\ provider_index = 0
    /\ request = 1
    /\ calls = <<>>
    /\ fetches = <<>>
    /\ CacheIdle
    /\ StatisticsIdle

NextRepeat ==
    \/ GetIndexData
    \/ FetchRange
    \/ RemoteEnter
    \/ ProviderCall
    \/ ProvidersExhausted
    \/ GetIndexDataReturn
    \/ RepeatRequest

SpecRepeat == InitRepeat /\ [][NextRepeat]_vars

----------------------------------------------------------------------------
(* Properties of the DataLoader                                            *)

\* C14: whenever no bar is cached, _get_missing_dates returns exactly the one
\* range (start_date, end_date), whatever the two dates and whatever the
\* trading calendar says.
C14_EmptyCacheOneRange ==
    pc = "returned" /\ cached_data = <<>> =>
        result = << <<start_date, end_date>> >>

\* nothing cached for Saturday the 6th to Sunday the 7th, which holds no
\* trading day at all
C14_Witness ==
    /\ pc = "returned"
    /\ cached_data = <<>>
    /\ start_date = 6
    /\ end_date = 7
    /\ trading_calendar.available
    /\ result = << <<6, 7>> >>

\* the expected trading days of the request that no cached bar covers
MissingExpectedDays ==
    {d \in start_date..end_date :
        /\ (d - 1) % 7 < 5
        /\ trading_calendar.available => d \notin trading_calendar.holidays["CN"]
        /\ \A j \in 1..Len(cached_data) : cached_data[j].datetime # d}

\* two missing days with no missing day between them
Successive(a, b) ==
    /\ a \in MissingExpectedDays
    /\ b \in MissingExpectedDays
    /\ a < b
    /\ \A d \in MissingExpectedDays : ~(a < d /\ d < b)

RangesHolding(ranges, d) == {i \in 1..Len(ranges) : ranges[i][1] <= d /\ d <= ranges[i][2]}

\* C16: for a non-empty cache the returned ranges are ordered and pairwise
\* disjoint, each starts and ends on a missing expected trading day of
\* [start_date, end_date], every missing expected trading day lies in exactly
\* one range, two successive missing days share a range if and only if they
\* are at most 7 calendar days apart, and a single missing day gives the one
\* range from that day to that day.
C16_GapRanges ==
    pc = "returned" /\ cached_data # <<>> =>
        /\ \A i \in 1..Len(result) :
              /\ result[i][1] \in MissingExpectedDays
              /\ result[i][2] \in MissingExpectedDays
              /\ result[i][1] <= result[i][2]
              /\ i > 1 => result[i - 1][2] < result[i][1]
        /\ \A d \in MissingExpectedDays : Cardinality(RangesHolding(result, d)) = 1
        /\ \A a, b \in MissingExpectedDays :
              Successive(a, b) =>
                  (RangesHolding(result, a) = RangesHolding(result, b) <=> b - a <= 7)
        /\ \A d \in MissingExpectedDays :
              MissingExpectedDays = {d} => result = << <<d, d>> >>

\* only the two Mondays, 7 days apart, are missing: one range; the calendar
\* is in use
C16_Witness ==
    /\ pc = "returned"
    /\ start_date = 1
    /\ end_date = 10
    /\ trading_calendar.available
    /\ MissingExpectedDays = {1, 8}
    /\ Len(cached_data) = 6
    /\ result = << <<1, 8>> >>

\* the rows of the requested symbol and dates
RequestedRows ==
    {row \in market_data :
        row.symbol = symbol /\ start_date <= row.trade_date /\ row.trade_date <= end_date}

\* the expected trading days of the request
ExpectedDays ==
    {d \in start_date..end_date :
        /\ (d - 1) % 7 < 5
        /\ trading_calendar.available => d \notin trading_calendar.holidays["CN"]}

FullyCached ==
    /\ RequestedRows # {}
    /\ \A d \in ExpectedDays : \E row \in RequestedRows : row.trade_date = d

\* C15: when the rows cached for the symbol are not empty and cover every
\* expected trading day of [start_date, end_date], _get_missing_dates gives
\* the empty list and get_index_data returns the cached bars at once: no
\* provider is asked and the table is not written.
C15_FullCacheHit ==
    [][pc = "get_index_data" /\ FullyCached =>
          /\ missing_dates' = <<>>
          /\ pc' = "returned"
          /\ result' = cached_data'
          /\ {<<result'[j].datetime, result'[j].close_price>> : j \in 1..Len(result')}
                = {<<row.trade_date, row.close_price>> : row \in RequestedRows}
          /\ Len(result') = Cardinality(RequestedRows)
          /\ calls' = calls
          /\ market_data' = market_data]_vars

\* all eight business days of the window were cached; a provider that has
\* the bars was not asked
C15_Witness ==
    /\ entry = "get_index_data"
    /\ pc = "returned"
    /\ FullyCached
    /\ ~trading_calendar.available
    /\ data_sources["tushare"].response = "bars"
    /\ symbol \in data_sources["tushare"].supported
    /\ Len(result) = 8
    /\ calls = <<>>
    /\ fetches = <<>>

InRange(d, rng) == rng[1] <= d /\ d <= rng[2]

\* an enabled provider that supports the requested symbol
Supporting(src) == data_sources[src].enabled /\ symbol \in data_sources[src].supported

\* the provider answers a request for the range with bars
HasBars(src, rng) ==
    /\ data_sources[src].response = "bars"
    /\ \E d \in data_sources[src].dates : InRange(d, rng)

PriorityOf(src) == data_sources[src].priority

ProvidersWithBars ==
    {src \in {"tushare", "futu"} : Supporting(src) /\ HasBars(src, <<start_date, end_date>>)}

BarsIn(bars, rng) == SelectSeq(bars, LAMBDA bar : InRange(bar.datetime, rng))

\* what the cache holds for the symbol in a range, as the bars read from it
CachedIn(rng) ==
    {[symbol |-> row.symbol, datetime |-> row.trade_date, close_price |-> row.close_price,
      gateway_name |-> <<"CACHE", row.data_source>>]
     : row \in {r \in market_data : r.symbol = symbol /\ InRange(r.trade_date, rng)}}

RECURSIVE FetchedCount(_)
FetchedCount(j) ==
    IF j = 0 THEN 0
    ELSE FetchedCount(j - 1) + (IF fetches[j].data = <<>> THEN 0 ELSE Len(fetches[j].data[1]))

\* C19: a range for which no supporting provider delivers (each raises or has
\* nothing, or none supports the symbol) is fetched without an error and with
\* no data; get_index_data still returns, with exactly the cached bars in
\* that range, the cache holds for that range what it held before, and the
\* result holds the cached bars and the bars fetched for the other ranges.
C19_AllProvidersFail ==
    /\ pc # "raised"
    /\ \A j \in 1..Len(fetches) :
          (\A src \in {"tushare", "futu"} : Supporting(src) => ~HasBars(src, fetches[j].range))
              => /\ fetches[j].source = <<>>
                 /\ fetches[j].data = <<>>
                 /\ {cached_data[k] : k \in {i \in 1..Len(cached_data) :
                                              InRange(cached_data[i].datetime, fetches[j].range)}}
                       = CachedIn(fetches[j].range)
                 /\ pc = "returned" =>
                       BarsIn(result, fetches[j].range) = BarsIn(cached_data, fetches[j].range)
    /\ pc = "returned" =>
          /\ Len(fetches) = Len(missing_dates)
          /\ Len(result) = Len(cached_data) + FetchedCount(Len(fetches))
          /\ (\A j \in 1..Len(fetches) : fetches[j].source = <<>>) => result = cached_data

\* Monday the 1st and Tuesday the 9th were missing: the first range was
\* delivered, the second by nobody, and the result is the six cached bars
\* and the one new bar
C19_Witness ==
    /\ entry = "get_index_data"
    /\ pc = "returned"
    /\ missing_dates = << <<1, 1>>, <<9, 9>> >>
    /\ Len(fetches) = 2
    /\ fetches[1].source # <<>>
    /\ fetches[2].source = <<>>
    /\ Len(cached_data) = 6
    /\ Len(result) = 7
    /\ result[1].datetime = 1

\* the rows hold the bar under the source's name
Written(bar, src) ==
    \E row \in market_data :
        /\ row.symbol = symbol
        /\ row.data_source = src
        /\ row.trade_date = bar.datetime
        /\ row.close_price = bar.close_price

CallsOf(r) == {j \in 1..Len(calls) : calls[j].request = r}

FetchesOf(r) == {j \in 1..Len(fetches) : fetches[j].request = r}

\* C20 as stated: the bars a fetch returns from provider P are all in the
\* cache under the name of P, and once the first request had every range
\* delivered, a second request for the same symbol and dates asks no provider.
C20_SavedSoSecondRequestHits ==
    /\ \A j \in 1..Len(fetches) :
          fetches[j].source # <<>> =>
              \A k \in 1..Len(fetches[j].data[1]) :
                  Written(fetches[j].data[1][k], fetches[j].source[1])
    /\ (request >= 2 /\ \A j \in FetchesOf(1) : fetches[j].source # <<>>) =>
          CallsOf(2) = {}

\* the request found a bar for every expected trading day
CoveredByRead ==
    /\ cached_data # <<>>
    /\ \A d \in ExpectedDays : \E k \in 1..Len(cached_data) : cached_data[k].datetime = d

\* C20, amended: the bars a fetch returns from provider P are in the cache
\* under the name of P, but for the bars whose upsert failed; a repeated
\* request asks no provider exactly when the bars then cached cover every
\* expected trading day, and otherwise has the days still missing fetched.
C20_SavedBarsAndRepeatedRequest ==
    /\ \A j \in 1..Len(fetches) :
          fetches[j].source # <<>> =>
              \A k \in 1..Len(fetches[j].data[1]) :
                  fetches[j].data[1][k].close_price # <<>> =>
                      Written(fetches[j].data[1][k], fetches[j].source[1])
    /\ (request >= 2 /\ pc = "returned") =>
          /\ CoveredByRead => CallsOf(request) = {} /\ result = cached_data
          /\ ~CoveredByRead => CallsOf(request) # {} /\ FetchesOf(request) # {}

\* nothing was cached; the first request had the three days delivered and
\* written, the second one asked nobody
C20_Witness ==
    /\ entry = "get_index_data"
    /\ pc = "returned"
    /\ request = 2
    /\ Len(fetches) = 1
    /\ fetches[1].request = 1
    /\ fetches[1].source # <<>>
    /\ Len(fetches[1].data[1]) = 3
    /\ CallsOf(1) # {}
    /\ CallsOf(2) = {}
    /\ Len(result) = 3

\* C21: find_providers_for_symbol gives exactly the enabled providers that
\* support the symbol, in priority order (the order tushare, futu for equal
\* priorities), the fetch loop asks the providers of that list from its
\* start on, and a provider that does not support the symbol is never asked.
C21_UnsupportedNeverAsked ==
    /\ \A j \in 1..Len(calls) :
          /\ symbol \in data_sources[calls[j].provider].supported
          /\ calls[j].symbol = symbol
    /\ pc \in {"provider_loop", "returned"} =>
          /\ {providers[k] : k \in 1..Len(providers)} =
                {src \in {"tushare", "futu"} :
                    data_sources[src].enabled /\ symbol \in data_sources[src].supported}
          /\ \A i, k \in 1..Len(providers) :
                i < k =>
                    /\ providers[i] # providers[k]
                    /\ data_sources[providers[i]].priority <= data_sources[providers[k]].priority
                    /\ data_sources[providers[i]].priority = data_sources[providers[k]].priority
                          => providers[i] = "tushare"
          /\ Len(calls) <= Len(providers)
          /\ \A j \in 1..Len(calls) : calls[j].provider = providers[j]

\* tushare comes first by priority and has the bars but does not support
\* the symbol: only futu was asked
C21_Witness ==
    /\ entry = "_get_remote_data_multi_source"
    /\ pc = "returned"
    /\ data_sources["tushare"].enabled
    /\ data_sources["tushare"].priority = 1
    /\ data_sources["futu"].priority = 2
    /\ data_sources["tushare"].response = "bars"
    /\ symbol \notin data_sources["tushare"].supported
    /\ providers = <<"futu">>
    /\ Len(calls) = 1
    /\ calls[1].provider = "futu"

\* C25: for a positive initial capital and a non-empty daily sequence, the
\* max_drawdown of the summary (the full scan of _calculate_max_drawdown)
\* equals the max_drawdown field of the last record of _process_daily_results.
C25_DrawdownComputationsAgree ==
    /\ entry = "calculate_backtest_statistics"
    /\ pc = "returned"
    /\ initial_capital > 0
    /\ daily_results # <<>>
    => result.max_drawdown = processed_results[Len(processed_results)].max_drawdown

\* equity after record i, and its running peak starting at initial_capital
Equity(i) == initial_capital + NetPnlSum(i)

RECURSIVE Peak(_)
Peak(i) ==
    IF i = 0 THEN initial_capital
    ELSE IF Equity(i) > Peak(i - 1) THEN Equity(i) ELSE Peak(i - 1)

EquityStaysPositive ==
    \A i \in 1..Len(daily_results) : Equity(i) > 0

\* C26: with initial_capital > 0 and positive equity, after every step the
\* running peak max_capital is the maximum of initial_capital and the
\* equities so far; the drawdown of a record is 0 when its equity exceeds the
\* previous peak and (peak - equity) / peak * 100 >= 0 otherwise; and the
\* max_drawdown of a record is the largest drawdown emitted up to it, so it
\* never decreases from one record to the next.
C26_RunningPeakAndDrawdown ==
    initial_capital > 0 /\ EquityStaysPositive /\ pc # "process_daily_results" =>
        /\ pc # "raised"
        /\ max_capital = Peak(Len(processed_results))
        /\ \A j \in 0..Len(processed_results) :
              /\ Peak(j) >= initial_capital
              /\ \A i \in 1..j : Peak(j) >= Equity(i)
              /\ Peak(j) \in {initial_capital} \cup {Equity(i) : i \in 1..j}
        /\ \A i \in 1..Len(processed_results) :
              LET rec == processed_results[i]
              IN  /\ rec.drawdown =
                        IF Equity(i) > Peak(i - 1) THEN <<0, 1>>
                        ELSE RMul(Rat(Peak(i - 1) - Equity(i), Peak(i - 1)), RInt(100))
                  /\ rec.drawdown[1] >= 0
                  /\ \A j \in 1..i : ~RLt(rec.max_drawdown, processed_results[j].drawdown)
                  /\ rec.max_drawdown \in
                        {<<0, 1>>} \cup {processed_results[j].drawdown : j \in 1..i}
                  /\ i > 1 => ~RLt(rec.max_drawdown, processed_results[i - 1].max_drawdown)

\* three days: a new peak, a decline, and a smaller decline from the same peak
C26_Witness ==
    /\ entry = "_process_daily_results"
    /\ pc = "returned"
    /\ initial_capital = 1000
    /\ EquityStaysPositive
    /\ Len(processed_results) = 3
    /\ max_capital > initial_capital
    /\ processed_results[1].drawdown = <<0, 1>>
    /\ RLt(<<0, 1>>, processed_results[3].drawdown)
    /\ RLt(processed_results[3].drawdown, processed_results[2].drawdown)
    /\ processed_results[3].max_drawdown = processed_results[2].drawdown

----------------------------------------------------------------------------
(* Properties of the pairing loop: legs of unequal volume                  *)

MaxMatchTrades == 4

\* one instrument, one side, volumes 5 and 10: partial closes and partial opens
MatchTrades ==
    [symbol : {"A"}, direction : {"LONG"}, offset : {"OPEN", "CLOSE"},
     price : {100, 110}, volume : {5, 10}]

InitMatch == InitTradeCall(TradeSeqs(MatchTrades, MaxMatchTrades))

SpecMatch == InitMatch /\ [][NextTrade]_vars

\* the trades the loop has handled so far
Handled == SubSeq(sorted_trades, 1, trade_index)

CountOffset(s, offset) == Cardinality({j \in 1..Len(s) : s[j].offset = offset})

\* C27: every iteration that emits a pair removes one whole leg from
\* position_stack and adds nothing, whatever the two volumes are; so every
\* handled OPEN is either still pending with its full volume or in exactly one
\* pair, every handled CLOSE is in at most one pair, and the number of pairs
\* never exceeds min(number of OPEN trades, number of CLOSE trades).
C27_OneCloseOneOpen ==
    /\ [][PairingStep =>
            \E j \in 1..Len(position_stack) :
               position_stack' = RemoveAt(position_stack, j)]_vars
    /\ [](pc \in {"trade_loop", "returned"} /\ trades # <<>> =>
            /\ Len(completed_trades) + Len(position_stack) = CountOffset(Handled, "OPEN")
            /\ Len(completed_trades) <= CountOffset(Handled, "CLOSE")
            /\ \A j \in 1..Len(position_stack) :
                  /\ position_stack[j].trade.offset = "OPEN"
                  /\ position_stack[j].volume = position_stack[j].trade.volume
                  /\ \E k \in 1..trade_index : sorted_trades[k] = position_stack[j].trade
                  /\ \A i \in 1..Len(position_stack) :
                        i # j => position_stack[i].trade # position_stack[j].trade
            /\ Len(completed_trades) <= Min(CountOffset(trades, "OPEN"),
                                            CountOffset(trades, "CLOSE")))

\* OPEN x10, CLOSE x5, CLOSE x5: one pair of volume 5, the second CLOSE finds
\* nothing pending
C27_Witness ==
    /\ pc = "returned"
    /\ Len(sorted_trades) = 3
    /\ sorted_trades[1].offset = "OPEN" /\ sorted_trades[1].volume = 10
    /\ sorted_trades[2].offset = "CLOSE" /\ sorted_trades[2].volume = 5
    /\ sorted_trades[3].offset = "CLOSE" /\ sorted_trades[3].volume = 5
    /\ Len(completed_trades) = 1
    /\ completed_trades[1].volume = 5
    /\ position_stack = <<>>

----------------------------------------------------------------------------
(* Properties of the pairing loop: the order the trades are supplied in    *)

MaxOrderTrades == 3

\* trades carrying any timestamp, equal ones included, in any order
OrderTrades ==
    [datetime : 1..MaxOrderTrades, symbol : {"A"}, direction : {"LONG"},
     offset : {"OPEN", "CLOSE"}, price : {100, 110}, volume : {10}]

InitOrder == InitTradeCall(SeqsUpTo(OrderTrades, MaxOrderTrades))

SpecOrder == InitOrder /\ [][NextTrade]_vars

Bijections(n) ==
    {f \in [1..n -> 1..n] : \A i, j \in 1..n : i # j => f[i] # f[j]}

Rearranged(s, f) == [k \in 1..Len(s) |-> s[f[k]]]

DistinctTimestamps(s) ==
    \A i, j \in 1..Len(s) : i # j => s[i].datetime # s[j].datetime

\* C28: when the call has returned, the list sorted_trades it looped over is
\* the supplied list rearranged into ascending timestamp order, trades of
\* equal timestamp keeping their supplied relative order; and
\* when the timestamps are pairwise distinct, every permutation of the
\* supplied list gives the pairs and the statistics that were returned.
C28_OrderOfSupplyIrrelevant ==
    pc = "returned" /\ trades # <<>> =>
        /\ \E f \in Bijections(Len(trades)) :
              /\ sorted_trades = Rearranged(trades, f)
              /\ \A k, l \in 1..Len(trades) :
                    k < l =>
                       \/ trades[f[k]].datetime < trades[f[l]].datetime
                       \/ /\ trades[f[k]].datetime = trades[f[l]].datetime
                          /\ f[k] < f[l]
        /\ DistinctTimestamps(trades) =>
              \A f \in Bijections(Len(trades)) :
                 LET sorted == SortedByDatetime(Rearranged(trades, f))
                 IN  /\ PairsOf(sorted) = completed_trades
                     /\ TradeStatistics(sorted, PairsOf(sorted)) = result

\* supplied as CLOSE (time 3), OPEN@100 (time 1), OPEN@110 (time 2): handled
\* in time order, the CLOSE is paired with the leg opened at 110
C28_Witness ==
    /\ pc = "returned"
    /\ Len(trades) = 3
    /\ trades[1].datetime = 3 /\ trades[1].offset = "CLOSE"
    /\ trades[2].datetime = 1 /\ trades[2].offset = "OPEN" /\ trades[2].price = 100
    /\ trades[3].datetime = 2 /\ trades[3].offset = "OPEN" /\ trades[3].price = 110
    /\ sorted_trades = <<trades[2], trades[3], trades[1]>>
    /\ Len(completed_trades) = 1
    /\ completed_trades[1].open_price = 110

----------------------------------------------------------------------------
(* ResultAnalyzer._analyze_trades (src/result_analyzer.py) and the         *)
(* dashboard's calculate_trade_pnl (src/src/streamlit_app.py), run on the   *)
(* trades of a finished backtest in the order they are stored.              *)

\* the entry appended to positions[symbol] for an OPEN trade
PositionEntry(t) ==
    [entry_price |-> t.price, volume |-> t.volume, datetime |-> t.datetime,
     direction |-> t.direction]

\* positions[sym] of _analyze_trades after the trades s: append on OPEN,
\* pop(0) on a CLOSE that finds an entry
RECURSIVE AnalyzerPositions(_, _)
AnalyzerPositions(s, sym) ==
    IF s = <<>> THEN <<>>
    ELSE LET before == AnalyzerPositions(SubSeq(s, 1, Len(s) - 1), sym)
             t == s[Len(s)]
         IN  IF t.symbol # sym THEN before
             ELSE IF IsOpen(t) THEN Append(before, PositionEntry(t))
             ELSE IF IsClose(t) /\ before # <<>> THEN Tail(before)
             ELSE before

\* the PnL of a CLOSE at price x volume against the popped entry
EntryPnl(position, price, volume) ==
    IF position.direction = "LONG"
    THEN (price - position.entry_price) * volume
    ELSE (position.entry_price - price) * volume

TradePair(position, t) ==
    [entry_datetime |-> position.datetime,
     exit_datetime |-> t.datetime,
     entry_price |-> position.entry_price,
     exit_price |-> t.price,
     direction |-> position.direction,
     volume |-> t.volume,
     pnl |-> EntryPnl(position, t.price, t.volume)]

\* trade_pairs of _analyze_trades
RECURSIVE _analyze_trades(_)
_analyze_trades(s) ==
    IF s = <<>> THEN <<>>
    ELSE LET before == SubSeq(s, 1, Len(s) - 1)
             t == s[Len(s)]
             queue == AnalyzerPositions(before, t.symbol)
         IN  IF ~IsOpen(t) /\ IsClose(t) /\ queue # <<>>
             THEN Append(_analyze_trades(before), TradePair(queue[1], t))
             ELSE _analyze_trades(before)

\* positions[sym] of calculate_trade_pnl after the trades s
RECURSIVE DashboardPositions(_, _)
DashboardPositions(s, sym) ==
    IF s = <<>> THEN <<>>
    ELSE LET before == DashboardPositions(SubSeq(s, 1, Len(s) - 1), sym)
             t == s[Len(s)]
         IN  IF t.symbol # sym THEN before
             ELSE IF IsOpen(t) THEN Append(before, PositionEntry(t))
             ELSE IF IsClose(t) /\ before # <<>> THEN Tail(before)
             ELSE before

\* the row of enhanced_trades for the last trade of s; the PnL column is
\* formatted with two decimals, which keeps a whole number of units of 0.01
EnhancedTrade(s) ==
    LET t == s[Len(s)]
        queue == DashboardPositions(SubSeq(s, 1, Len(s) - 1), t.symbol)
    IN  [datetime |-> t.datetime,
         symbol |-> t.symbol,
         price |-> t.price,
         volume |-> t.volume,
         pnl |-> IF ~IsOpen(t) /\ IsClose(t) /\ queue # <<>>
                 THEN EntryPnl(queue[1], t.price, t.volume)
                 ELSE 0]

\* enhanced_trades of calculate_trade_pnl: one row per trade
calculate_trade_pnl(s) == [k \in 1..Len(s) |-> EnhancedTrade(SubSeq(s, 1, k))]

\* the printed report is made from the trades of the finished backtest
AnalyzeTrades ==
    /\ entry = "_calculate_trade_statistics"
    /\ pc = "returned"
    /\ trade_pairs = None
    /\ trade_pairs' = Some(_analyze_trades(trades))
    /\ UNCHANGED <<entry, pc, result, daily_results, trades, initial_capital,
                   dailyLocals, tradeLocals, summary_max_drawdown, annual_metrics,
                   enhanced_trades, loaderVars>>

\* the dashboard's trade table is made from the same trades
CalculateTradePnl ==
    /\ entry = "_calculate_trade_statistics"
    /\ pc = "returned"
    /\ enhanced_trades = None
    /\ enhanced_trades' = Some(calculate_trade_pnl(trades))
    /\ UNCHANGED <<entry, pc, result, daily_results, trades, initial_capital,
                   dailyLocals, tradeLocals, summary_max_drawdown, annual_metrics,
                   trade_pairs, loaderVars>>

MaxRoutineTrades == 3

\* two instruments, two prices, two volumes, stored in time order
RoutineTrades ==
    [symbol : {"A", "B"}, direction : {"LONG"}, offset : {"OPEN", "CLOSE"},
     price : {100, 110}, volume : {5, 10}]

InitRoutines == InitTradeCall(TradeSeqs(RoutineTrades, MaxRoutineTrades))

NextRoutines ==
    \/ TradeEnter
    \/ TradeStep
    \/ TradeReturn
    \/ AnalyzeTrades
    \/ CalculateTradePnl

SpecRoutines == InitRoutines /\ [][NextRoutines]_vars

\* the PnL _calculate_trade_statistics attributes to the k-th trade: that of
\* the pair its iteration emits, if it emits one
StatisticsPnlOf(k) ==
    LET stack == StackOf(SubSeq(sorted_trades, 1, k - 1))
        pairs == PairsOf(SubSeq(sorted_trades, 1, k))
    IN  IF IsClose(sorted_trades[k]) /\ ~IsOpen(sorted_trades[k]) /\ stack # <<>>
        THEN Some(pairs[Len(pairs)].pnl)
        ELSE None

\* C29: once the three routines have run on a chronologically ordered trade
\* list, the PnL that _calculate_trade_statistics attributes to each matched
\* CLOSE trade is the PnL that _analyze_trades pairs with that CLOSE and the
\* PnL that calculate_trade_pnl shows in that trade's row.
C29_RoutinesAttributeSamePnl ==
    /\ pc = "returned"
    /\ trades # <<>>
    /\ trade_pairs # None
    /\ enhanced_trades # None
    => \A k \in 1..Len(trades) :
          StatisticsPnlOf(k) # None =>
             /\ \E j \in 1..Len(trade_pairs[1]) :
                   /\ trade_pairs[1][j].exit_datetime = trades[k].datetime
                   /\ trade_pairs[1][j].pnl = StatisticsPnlOf(k)[1]
             /\ enhanced_trades[1][k].pnl = StatisticsPnlOf(k)[1]

----------------------------------------------------------------------------
(* Properties of the DataLoader: the returned series                       *)

\* C30: the series get_index_data returns is in ascending date order and
\* holds at most one bar per trade date, whatever the cache held and the
\* providers answered.
C30_SortedOneBarPerDate ==
    entry = "get_index_data" /\ pc = "returned" =>
        \A i, j \in 1..Len(result) :
            i < j => result[i].datetime < result[j].datetime

----------------------------------------------------------------------------
(* _save_to_cache and clear_cache called directly, by one caller or by     *)
(* several callers sharing the cache file. SQLite gives the write lock to  *)
(* the connection whose INSERT comes first and keeps it until that         *)
(* connection commits; a statement of another connection that cannot get   *)
(* the lock in time raises "database is locked"; readers see the           *)
(* committed rows.                                                          *)

\* the row INSERT OR REPLACE writes for a bar
RowOfBar(sym, data_type, data_source, bar) ==
    [symbol |-> sym, data_type |-> data_type, data_source |-> data_source,
     trade_date |-> bar.datetime, close_price |-> bar.close_price]

\* the whole batch is given up at the first bar that fails
AbortBatch(index, bars) == Len(bars) + 1

\* except Exception: the failure is printed and the loop goes on
AfterInsertFailure(index, bars) == index + 1

\* the rows a connection sees: its own open transaction, or what is committed
ViewOf(w) == IF transaction.holder = w THEN transaction.rows ELSE market_data

MaxSaves == 2

\* (symbol, data_type, data_source) of a call: the first two differ in the
\* source, the last two in the data type, the first and the last in the symbol
CacheKeys ==
    {[symbol |-> "000300.SH", data_type |-> "index", data_source |-> "tushare"],
     [symbol |-> "000300.SH", data_type |-> "index", data_source |-> "futu"],
     [symbol |-> "AAPL", data_type |-> "stock", data_source |-> "tushare"],
     [symbol |-> "AAPL", data_type |-> "index", data_source |-> "tushare"]}

\* the bars of a batch as (day, close): no bar; day 1 at a price, at another
\* price, without a price (NaN); two days, the first, the second or neither
\* without a price
BatchShapes ==
    {<<>>,
     <<<<1, Some(100)>>>>, <<<<1, Some(101)>>>>, <<<<1, None>>>>,
     <<<<1, None>>, <<2, Some(100)>>>>,
     <<<<1, Some(100)>>, <<2, None>>>>,
     <<<<1, Some(101)>>, <<2, Some(101)>>>>}

BarsOf(shape, key) ==
    [j \in 1..Len(shape) |->
        [symbol |-> BarSymbol(key.data_source, key.symbol), datetime |-> shape[j][1],
         close_price |-> shape[j][2], gateway_name |-> GatewayName(key.data_source)]]

\* the arguments of the calls of _save_to_cache
SaveArguments ==
    {[key |-> key, bars |-> BarsOf(shape, key)] : key \in CacheKeys, shape \in BatchShapes}

\* self._save_to_cache(symbol, bars, data_type, data_source): "if not bars: return"
SaveCall(w, key, bars) ==
    /\ writers[w].pc \in {"idle", "returned"}
    /\ writers[w].calls < MaxSaves
    /\ writers' = [writers EXCEPT ![w] =
                      [pc |-> IF bars = <<>> THEN "returned" ELSE "insert_loop",
                       symbol |-> key.symbol, data_type |-> key.data_type,
                       data_source |-> key.data_source, bars |-> bars, index |-> 1,
                       calls |-> writers[w].calls + 1]]
    /\ cache_log' = Append(cache_log,
                           [op |-> "_save_to_cache", writer |-> w, symbol |-> key.symbol,
                            data_type |-> key.data_type, data_source |-> key.data_source,
                            bars |-> bars, before |-> market_data])
    /\ UNCHANGED <<entry, pc, result, statisticsVars, loaderArgs, market_data, environment,
                   indexLocals, remoteLocals, request, calls, fetches, transaction>>

SaveEnter(w) ==
    /\ pc = "cache"
    /\ \E args \in SaveArguments : SaveCall(w, args.key, args.bars)

\* cursor.execute(INSERT OR REPLACE ...) for the next bar, when no other
\* connection holds the write lock: the connection holds it from now on
Insert(w) ==
    /\ w \in DOMAIN writers
    /\ writers[w].pc = "insert_loop"
    /\ writers[w].index <= Len(writers[w].bars)
    /\ transaction.holder \in {0, w}
    /\ LET bar == writers[w].bars[writers[w].index]
           row == RowOfBar(writers[w].symbol, writers[w].data_type,
                           writers[w].data_source, bar)
       IN  IF UpsertFails(bar)
           THEN /\ transaction' = [holder |-> w, rows |-> ViewOf(w)]
                /\ writers' = [writers EXCEPT ![w].index =
                                  AfterInsertFailure(writers[w].index, writers[w].bars)]
           ELSE /\ transaction' = [holder |-> w, rows |-> Upsert(ViewOf(w), row)]
                /\ writers' = [writers EXCEPT ![w].index = writers[w].index + 1]
    /\ UNCHANGED <<entry, pc, result, statisticsVars, loaderArgs, market_data, environment,
                   indexLocals, remoteLocals, request, calls, fetches, cache_log>>

\* the same statement while another connection holds the write lock until
\* the timeout: OperationalError, caught like any other failure
InsertBusy(w) ==
    /\ w \in DOMAIN writers
    /\ writers[w].pc = "insert_loop"
    /\ writers[w].index <= Len(writers[w].bars)
    /\ transaction.holder \notin {0, w}
    /\ writers' = [writers EXCEPT ![w].index =
                      AfterInsertFailure(writers[w].index, writers[w].bars)]
    /\ UNCHANGED <<entry, pc, result, statisticsVars, loaderArgs, market_data, environment,
                   indexLocals, remoteLocals, request, calls, fetches, transaction,
                   cache_log>>

\* conn.commit(); conn.close(); return
Commit(w) ==
    /\ w \in DOMAIN writers
    /\ writers[w].pc = "insert_loop"
    /\ writers[w].index > Len(writers[w].bars)
    /\ IF transaction.holder = w
       THEN /\ market_data' = transaction.rows
            /\ transaction' = [holder |-> 0, rows |-> {}]
       ELSE UNCHANGED <<market_data, transaction>>
    /\ writers' = [writers EXCEPT ![w].pc = "returned"]
    /\ UNCHANGED <<entry, pc, result, statisticsVars, loaderArgs, environment,
                   indexLocals, remoteLocals, request, calls, fetches, cache_log>>

\* the rows the DELETE of clear_cache leaves: "if symbol and data_source",
\* "elif symbol", "elif data_source", else everything goes
clear_cache(table, sym, data_source) ==
    IF sym # None /\ data_source # None
    THEN {r \in table : ~(r.symbol = sym[1] /\ r.data_source = data_source[1])}
    ELSE IF sym # None
    THEN {r \in table : r.symbol # sym[1]}
    ELSE IF data_source # None
    THEN {r \in table : r.data_source # data_source[1]}
    ELSE {}

MaxClears == 1

ClearsSoFar == Cardinality({i \in 1..Len(cache_log) : cache_log[i].op = "clear_cache"})

ClearArguments == {None, Some("000300.SH")} \X {None, Some("tushare")}

\* clear_cache(symbol, data_source) while no write transaction is open
ClearCache ==
    /\ pc = "cache"
    /\ ClearsSoFar < MaxClears
    /\ transaction.holder = 0
    /\ \E args \in ClearArguments :
          /\ market_data' = clear_cache(market_data, args[1], args[2])
          /\ cache_log' = Append(cache_log,
                                 [op |-> "clear_cache", symbol |-> args[1],
                                  data_source |-> args[2], outcome |-> "done",
                                  before |-> market_data])
    /\ UNCHANGED <<entry, pc, result, statisticsVars, loaderArgs, environment,
                   indexLocals, remoteLocals, request, calls, fetches, writers,
                   transaction>>

\* clear_cache while a writer holds the lock until the timeout: the DELETE
\* raises OperationalError and nothing is deleted
ClearCacheBusy ==
    /\ pc = "cache"
    /\ ClearsSoFar < MaxClears
    /\ transaction.holder # 0
    /\ \E args \in ClearArguments :
          cache_log' = Append(cache_log,
                              [op |-> "clear_cache", symbol |-> args[1],
                               data_source |-> args[2], outcome |-> "raised",
                               before |-> market_data])
    /\ UNCHANGED <<entry, pc, result, statisticsVars, loaderArgs, market_data, environment,
                   indexLocals, remoteLocals, request, calls, fetches, writers,
                   transaction>>

\* _get_cached_data(symbol, start_date, end_date) once the writers are done
ReadCache ==
    /\ pc = "cache"
    /\ \A w \in DOMAIN writers : writers[w].pc # "insert_loop"
    /\ \E sym \in {key.symbol : key \in CacheKeys} :
          /\ symbol' = sym
          /\ \E read \in _get_cached_data(market_data, sym, start_date, end_date) :
                /\ cached_data' = read
                /\ result' = read
    /\ pc' = "returned"
    /\ UNCHANGED <<entry, statisticsVars, start_date, end_date, market_data, environment,
                   missing_dates, range_index, new_data, remoteLocals, request, calls,
                   fetches, cacheVars>>

\* what is outside the cache file: no provider, no calendar, no request
InitCacheCall ==
    /\ entry = "_save_to_cache"
    /\ pc = "cache"
    /\ symbol = ""
    /\ start_date = 1
    /\ end_date = 2
    /\ data_sources = <<>>
    /\ trading_calendar = NoResult
    /\ cached_data = <<>>
    /\ missing_dates = <<>>
    /\ range_index = 0
    /\ new_data = <<>>
    /\ providers = <<>>
    /\ provider_index = 0
    /\ request = 0
    /\ calls = <<>>
    /\ fetches = <<>>
    /\ transaction = [holder |-> 0, rows |-> {}]
    /\ cache_log = <<>>
    /\ StatisticsIdle

IdleWriter(made) ==
    [pc |-> "idle", symbol |-> "", data_type |-> "", data_source |-> "", bars |-> <<>>,
     index |-> 0, calls |-> made]

\* one caller: a sequence of _save_to_cache calls on an empty table, then a read
InitCache ==
    /\ InitCacheCall
    /\ market_data = {}
    /\ writers = [w \in {1} |-> IdleWriter(0)]

NextCache ==
    \/ SaveEnter(1)
    \/ Insert(1)
    \/ Commit(1)
    \/ ReadCache

SpecCache == InitCache /\ [][NextCache]_vars

----------------------------------------------------------------------------
(* Properties of the cache table: one caller                               *)

\* the calls of _save_to_cache made so far have all returned
NoCallRunning == \A w \in DOMAIN writers : writers[w].pc # "insert_loop"

\* the bars written so far, as (call, position in its batch)
BarsWritten ==
    UNION {{<<i, j>> : j \in 1..Len(cache_log[i].bars)}
           : i \in {c \in 1..Len(cache_log) : cache_log[c].op = "_save_to_cache"}}

KeyWritten(at) ==
    <<cache_log[at[1]].symbol, cache_log[at[1]].data_type, cache_log[at[1]].data_source,
      cache_log[at[1]].bars[at[2]].datetime>>

PriceWritten(at) == cache_log[at[1]].bars[at[2]].close_price

Later(a, b) == a[1] > b[1] \/ (a[1] = b[1] /\ a[2] > b[2])

\* the most recent of the writes W for the key of the write at
MostRecentIn(W, at) ==
    \A other \in W : KeyWritten(other) = KeyWritten(at) => ~Later(other, at)

HasRow(table, key, price) ==
    \E r \in table :
        /\ <<r.symbol, r.data_type, r.data_source, r.trade_date>> = key
        /\ r.close_price = price

\* C22 as stated: once the calls have returned, the table holds for every key
\* the price of the most recent write for that key, and a read returns it.
C22_LastWriteWins ==
    entry = "_save_to_cache" /\ NoCallRunning =>
        \A at \in BarsWritten :
            MostRecentIn(BarsWritten, at) =>
                /\ HasRow(market_data, KeyWritten(at), PriceWritten(at))
                /\ pc = "returned" /\ KeyWritten(at)[1] = symbol =>
                      \E k \in 1..Len(cached_data) :
                          /\ cached_data[k].datetime = KeyWritten(at)[4]
                          /\ cached_data[k].gateway_name = <<"CACHE", KeyWritten(at)[3]>>
                          /\ cached_data[k].close_price = PriceWritten(at)

\* the writes whose bar has a price: the others are rejected by NOT NULL
Accepted == {at \in BarsWritten : PriceWritten(at) # <<>>}

\* one row per key that has an accepted write, with the price of the most
\* recent accepted one
ExpectedRows ==
    {[symbol |-> KeyWritten(at)[1], data_type |-> KeyWritten(at)[2],
      data_source |-> KeyWritten(at)[3], trade_date |-> KeyWritten(at)[4],
      close_price |-> PriceWritten(at)]
     : at \in {a \in Accepted : MostRecentIn(Accepted, a)}}

SameArguments(a, b) ==
    /\ a.symbol = b.symbol
    /\ a.data_type = b.data_type
    /\ a.data_source = b.data_source
    /\ a.bars = b.bars

\* the table when the i-th logged call had returned
TableAfter(i) == IF i < Len(cache_log) THEN cache_log[i + 1].before ELSE market_data

\* C22 amended: once the calls have returned, the table holds exactly one row
\* per key that has an accepted write (a bar with a price), carrying the price
\* of the most recent accepted write for that key: a bar without a price is
\* skipped and leaves the key as it was. A read of a symbol returns one bar
\* per such row of the symbol, in ascending date order. A call that repeats
\* the arguments of the call before it leaves the table as it was.
C22_LastAcceptedWriteWins ==
    entry = "_save_to_cache" /\ NoCallRunning =>
        /\ market_data = ExpectedRows
        /\ \A i \in 2..Len(cache_log) :
              SameArguments(cache_log[i], cache_log[i - 1]) =>
                  TableAfter(i) = cache_log[i].before
        /\ pc = "returned" =>
              LET rows == {r \in ExpectedRows : r.symbol = symbol}
              IN  /\ Len(cached_data) = Cardinality(rows)
                  /\ \A r \in rows :
                        Cardinality({k \in 1..Len(cached_data) :
                                        /\ cached_data[k].symbol = r.symbol
                                        /\ cached_data[k].datetime = r.trade_date
                                        /\ cached_data[k].close_price = r.close_price
                                        /\ cached_data[k].gateway_name =
                                              <<"CACHE", r.data_source>>})
                        = Cardinality({q \in rows :
                                          /\ q.trade_date = r.trade_date
                                          /\ q.close_price = r.close_price
                                          /\ q.data_source = r.data_source})
                  /\ \A k, l \in 1..Len(cached_data) :
                        k < l => cached_data[k].datetime <= cached_data[l].datetime

\* days 1 and 2 of one key written at 101, then day 1 without a price and
\* day 2 at 100, and read: day 1 still carries 101, day 2 carries 100
C22_Witness ==
    /\ entry = "_save_to_cache"
    /\ pc = "returned"
    /\ Len(cache_log) = 2
    /\ \A i \in 1..2 :
          /\ cache_log[i].symbol = "000300.SH"
          /\ cache_log[i].data_source = "tushare"
          /\ Len(cache_log[i].bars) = 2
    /\ cache_log[1].bars[1].close_price = <<101>>
    /\ cache_log[1].bars[2].close_price = <<101>>
    /\ cache_log[2].bars[1].close_price = <<>>
    /\ cache_log[2].bars[2].close_price = <<100>>
    /\ symbol = "000300.SH"
    /\ Len(cached_data) = 2
    /\ cached_data[1].close_price = <<101>>
    /\ cached_data[2].close_price = <<100>>

\* the rows of a table under a key
RowsUnder(table, key) ==
    {r \in table : <<r.symbol, r.data_type, r.data_source, r.trade_date>> = key}

\* an iteration of the insert loop of the one caller on a bar without a price
RejectedInsertStep ==
    /\ writers[1].pc = "insert_loop"
    /\ writers[1].index <= Len(writers[1].bars)
    /\ writers[1].bars[writers[1].index].close_price = <<>>
    /\ writers' # writers

\* C24: an upsert that fails changes no row and the loop goes on with the
\* next bar of the batch; when the call has returned, normally, every bar of
\* the batch that has a price is in the committed table under its key, and
\* the key of every bar that failed is as it was before the call.
C24_FailedBarSkipped ==
    /\ [][RejectedInsertStep =>
            /\ writers'[1].pc = "insert_loop"
            /\ writers'[1].index = writers[1].index + 1
            /\ transaction'.rows =
                  IF transaction.holder = 1 THEN transaction.rows ELSE market_data
            /\ market_data' = market_data]_vars
    /\ [](entry = "_save_to_cache" /\ writers[1].pc = "returned" =>
            LET call == cache_log[Len(cache_log)]
                key(j) == <<call.symbol, call.data_type, call.data_source,
                            call.bars[j].datetime>>
            IN  /\ transaction.holder = 0
                /\ \A j \in 1..Len(call.bars) :
                      IF call.bars[j].close_price # <<>>
                      THEN \/ HasRow(market_data, key(j), call.bars[j].close_price)
                           \/ \E l \in (j + 1)..Len(call.bars) :
                                 /\ key(l) = key(j)
                                 /\ call.bars[l].close_price # <<>>
                      ELSE \/ RowsUnder(market_data, key(j)) = RowsUnder(call.before, key(j))
                           \/ \E l \in 1..Len(call.bars) :
                                 /\ key(l) = key(j)
                                 /\ call.bars[l].close_price # <<>>)

\* a batch whose first bar has no price and whose second bar has one was
\* written over a row of day 1: the call returned, day 1 is as before and
\* day 2 is in the table
C24_Witness ==
    /\ entry = "_save_to_cache"
    /\ pc = "cache"
    /\ writers[1].pc = "returned"
    /\ Len(cache_log) = 2
    /\ cache_log[2].symbol = cache_log[1].symbol
    /\ cache_log[2].data_type = cache_log[1].data_type
    /\ cache_log[2].data_source = cache_log[1].data_source
    /\ Len(cache_log[1].bars) = 1
    /\ cache_log[1].bars[1].close_price = <<100>>
    /\ Len(cache_log[2].bars) = 2
    /\ cache_log[2].bars[1].close_price = <<>>
    /\ cache_log[2].bars[2].close_price = <<100>>
    /\ Cardinality(market_data) = 2
    /\ \A r \in market_data : r.close_price = <<100>>

----------------------------------------------------------------------------
(* Several callers sharing the cache file                                  *)

\* a table holding a row of day 1 under every key
FilledTable ==
    {[symbol |-> key.symbol, data_type |-> key.data_type, data_source |-> key.data_source,
      trade_date |-> 1, close_price |-> Some(99)] : key \in CacheKeys}

\* what the concurrent callers write: one or two days of the first symbol
\* under either source, so that their keys can coincide
WriterArguments ==
    {args \in SaveArguments :
        /\ args.key.symbol = "000300.SH"
        /\ args.bars # <<>>
        /\ args.bars[Len(args.bars)].close_price # None
        /\ Len(args.bars) = 2 \/ args.bars[1].close_price = Some(100)}

WriterEnter(w) ==
    /\ pc = "cache"
    /\ \E args \in WriterArguments : SaveCall(w, args.key, args.bars)

\* two callers that each call _save_to_cache once, and calls of clear_cache,
\* in any interleaving
InitWriters ==
    /\ InitCacheCall
    /\ market_data = FilledTable
    /\ writers = [w \in {1, 2} |-> IdleWriter(MaxSaves - 1)]

NextWriters ==
    \/ \E w \in DOMAIN writers :
          \/ WriterEnter(w)
          \/ Insert(w)
          \/ InsertBusy(w)
          \/ Commit(w)
    \/ ClearCache
    \/ ClearCacheBusy

SpecWriters == InitWriters /\ [][NextWriters]_vars

OneRowPerKey(table) ==
    \A r1, r2 \in table :
        <<r1.symbol, r1.data_type, r1.data_source, r1.trade_date>>
          = <<r2.symbol, r2.data_type, r2.data_source, r2.trade_date>> => r1 = r2

\* a step that is a call of clear_cache
ClearStep ==
    /\ Len(cache_log') = Len(cache_log) + 1
    /\ cache_log'[Len(cache_log')].op = "clear_cache"

\* a row meets the filters that were given
MeetsFilters(r, sym, source) ==
    /\ sym # <<>> => r.symbol = sym[1]
    /\ source # <<>> => r.data_source = source[1]

\* C23: whatever the callers of _save_to_cache and clear_cache do and however
\* their statements interleave, the committed table and the table inside the
\* open transaction hold at most one row per (symbol, data_type, source,
\* trade_date); and a clear_cache that is carried out removes exactly the
\* rows that meet the filters given and changes no other row (one that finds
\* the file locked raises and removes nothing).
C23_OneRowPerKeyAndExactClear ==
    /\ [](OneRowPerKey(market_data) /\ OneRowPerKey(transaction.rows))
    /\ [][ClearStep =>
            LET call == cache_log'[Len(cache_log')]
            IN  /\ call.before = market_data
                /\ transaction' = transaction
                /\ IF call.outcome = "done"
                   THEN market_data' =
                           {r \in market_data :
                               ~MeetsFilters(r, call.symbol, call.data_source)}
                   ELSE market_data' = market_data]_vars

\* two callers wrote day 1 of the same key at different prices, the second
\* having started before the first committed; then clear_cache("000300.SH",
\* "tushare") removed that symbol's rows of that source and no other row
C23_Witness ==
    /\ entry = "_save_to_cache"
    /\ writers[1].pc = "returned"
    /\ writers[2].pc = "returned"
    /\ writers[1].symbol = writers[2].symbol
    /\ writers[1].data_type = writers[2].data_type
    /\ writers[1].data_source = "futu"
    /\ writers[2].data_source = "futu"
    /\ writers[1].bars[1].close_price # writers[2].bars[1].close_price
    /\ Len(cache_log) = 3
    /\ cache_log[1].op = "_save_to_cache"
    /\ cache_log[2].op = "_save_to_cache"
    /\ cache_log[3].op = "clear_cache"
    /\ cache_log[3].outcome = "done"
    /\ cache_log[3].symbol = <<"000300.SH">>
    /\ cache_log[3].data_source = <<"tushare">>
    /\ Cardinality(cache_log[3].before) = 5
    /\ Cardinality(market_data) = 4

====
